---- MODULE Spec2Model ----
(***************************************************************************)
(* Verification model of the strategy back-testing framework:              *)
(*   - the bar-driven simulation engine shared by SmaCrossStrategy and     *)
(*     MacdMomentumStrategy (on_start / on_bar / on_finish),               *)
(*   - StrategyTester::test_strategy with its three validation passes,     *)
(*   - StrategyRegistry and SmartStrategyTester's deduplicating loop.      *)
(* Specifications: SimSpec and RunSpec drive one strategy object over bars  *)
(* (all short feeds, and long fixed feeds), VolSpec applies the volatility   *)
(* adjustment, TestSpec runs test_strategy, RegSpec runs two deduplicating   *)
(* workers, SaveSpec saves results, SigSpec generates signatures,            *)
(* RatioSpec, CurveSpec and TailSpec apply the metric functions to series,   *)
(* CsvSpec exports and imports a list of records, DegradedSpec builds a      *)
(* tester over a registry file that may not open, LoopSpec and FairLoopSpec  *)
(* run the exploration loops, ExploreSpec calls the parameter generators of  *)
(* ExplorationManager, CleanSpec prunes and optimizes a registry,            *)
(* ScenarioSpec feeds a steadily rising series, GenSpec generates strategy   *)
(* configurations, RerunSpec reuses a strategy object for a second run,      *)
(* RetrySpec repeats calls of the tester with changing bars, CapitalSpec     *)
(* runs test_strategy with several values of initial_capital.               *)
(*                                                                         *)
(* Numbers.  The C++ code computes in double.  The model computes in       *)
(* fixed point:                                                            *)
(*   prices      whole dollars (an integer, possibly <= 0)                 *)
(*   quantities  whole shares, signed                                      *)
(*   money       mills (1/1000 dollar)                                     *)
(*   stop levels 1/100 dollar                                              *)
(* The only inexact operations are the two divisions of position sizing   *)
(* (fraction of portfolio value, and size / price), which truncate.        *)
(* Every later product, sum and fee is exact in these units.               *)
(* Returns and volatilities are in 1/10000, rounded to nearest; the         *)
(* volatility adjustment is in 1/100; registry parameters are in 1e-9.       *)
(* The ratio metrics and the composite score are computed in rounded binary *)
(* floating point (see "Binary floating point"); scores are kept in 1/1000. *)
(***************************************************************************)
EXTENDS Integers, Sequences, FiniteSets, TLC

VARIABLES
  strat,     \* the Strategy object (all fields of the class)
  phase,     \* life cycle of the strategy object: "absent", "new", "running", "finished"
  obs,       \* history: the last call observed, or the saves that have returned
  tester,    \* StrategyTester::test_strategy activation
  db,        \* the SQLite database behind StrategyRegistry
  workers    \* SmartStrategyTester::test_strategies_with_deduplication activations

vars == <<strat, phase, obs, tester, db, workers>>

-----------------------------------------------------------------------------
(* Bounds of the model *)

\* bars fed to an SMA run
MaxBars == 6
\* bars fed to a MACD run
MaxMacdBars == 7

-----------------------------------------------------------------------------
(* Units *)

Mills == 10 * 10 * 10            \* money units per dollar
PctDen == 10 * 10                \* stop levels are held in 1/100 dollar
PermilleDen == 10 * 10 * 10      \* risk fractions are held in 1/1000

\* Strategy::portfolio_value_ / on_start: $100k
InitialCapital == 100000

Abs(x) == IF x < 0 THEN -x ELSE x
Max2(a, b) == IF a >= b THEN a ELSE b
Min2(a, b) == IF a <= b THEN a ELSE b
Sign(x) == IF x > 0 THEN 1 ELSE IF x < 0 THEN -1 ELSE 0

RECURSIVE Pow(_, _)
Pow(b, e) == IF e = 0 THEN 1 ELSE b * Pow(b, e - 1)

RECURSIVE SumSeq(_)
SumSeq(q) == IF q = <<>> THEN 0 ELSE q[1] + SumSeq(Tail(q))

\* the last n elements of q (n <= Len(q))
LastN(q, n) == SubSeq(q, Len(q) - n + 1, Len(q))

\* a / b > c / d for a, c >= 0 and b, d > 0, without forming the cross products
RECURSIVE FracGT(_, _, _, _)
FracGT(a, b, c, d) ==
  LET qa == a \div b
      qc == c \div d
      ra == a % b
      rc == c % d
  IN  IF qa # qc THEN qa > qc
      ELSE IF ra = 0 THEN FALSE
      ELSE IF rc = 0 THEN TRUE
      ELSE FracGT(d, rc, b, ra)

\* F applied to the value of v, the value being computed once: the LET of a
\* local the code assigns once and then reads many times
Bind(v, F(_)) == CHOOSE r \in { F(x) : x \in {v} } : TRUE

-----------------------------------------------------------------------------
(* Strategy parameters and risk configuration *)

\* the configurations the model runs; fee is in 1/1000 of the notional
SmaConfigs ==
  { [kind |-> "SMA", sw_ |-> 1, lw_ |-> 2, fee_ |-> f] : f \in {0, 1} }

\* overbought / oversold levels are in dollars
MacdConfigs ==
  { [kind |-> "MACD", fast_period_ |-> 2, slow_period_ |-> 1, signal_period_ |-> 2,
     overbought_level_ |-> 1, oversold_level_ |-> -1, fee_ |-> 1] }

\* closes a bar can carry: non-positive ones are only warned about by validation
SmaCloses == {-100, 0, 100, 101, 110, 120}
MacdCloses == {-100, 100, 101, 110}

\* RiskConfig as set by the two constructors (fractions in 1/1000, percent in
\* 1/100, the ATR multiplier in 1/10)
RiskConfig(kind) ==
  IF kind = "SMA"
  THEN [max_portfolio_risk |-> 20, stop_loss_pct |-> 2, take_profit_pct |-> 6,
        enable_trailing_stop |-> TRUE, trailing_stop_pct |-> 1,
        enable_volatility_sizing |-> TRUE,
        max_drawdown |-> 100,
        enable_atr_stops |-> TRUE, atr_period |-> 14, atr_multiplier |-> 20,
        enable_drawdown_breaker |-> TRUE, drawdown_breaker_pct |-> 50,
        recovery_mode_risk |-> 5]
  ELSE [max_portfolio_risk |-> 25, stop_loss_pct |-> 4, take_profit_pct |-> 12,
        enable_trailing_stop |-> TRUE, trailing_stop_pct |-> 1,
        enable_volatility_sizing |-> TRUE,
        max_drawdown |-> 150,
        enable_atr_stops |-> TRUE, atr_period |-> 14, atr_multiplier |-> 25,
        enable_drawdown_breaker |-> TRUE, drawdown_breaker_pct |-> 80,
        recovery_mode_risk |-> 10]

\* denominator of the MACD indicator values: EMA smoothing divides by
\* fast_period_ + 1 = 3 once per bar, the seed and the signal line by 2
MacdDen == 4 * Pow(3, MaxMacdBars + 1)

-----------------------------------------------------------------------------
(* The Strategy object *)

NoTrades == <<>>

\* the object right after construction (member initialisers)
Constructed(cfg) ==
  [ cfg |-> cfg,
    closes_ |-> <<>>,
    short_sma_ |-> 0, long_sma_ |-> 0,
    ema_fast_ |-> <<>>, ema_slow_ |-> <<>>, macd_line_ |-> <<>>,
    signal_line_ |-> <<>>, histogram_ |-> <<>>, macd_ |-> 0, signal_ |-> 0,
    position_ |-> 0,
    quantity |-> 0, avg_entry_price |-> 0, current_price |-> 0, unrealized_pnl |-> 0,
    cash_ |-> 0, fees_paid_ |-> 0, last_price_ |-> 0, last_date_ |-> 0,
    previous_value_ |-> 0,
    stop_loss_price_ |-> 0, take_profit_price_ |-> 0, trailing_stop_price_ |-> 0,
    peak_portfolio_value_ |-> 0,
    max_drawdown_ |-> [num |-> 0, den |-> 1],
    portfolio_value_ |-> InitialCapital * Mills,
    trades_ |-> NoTrades ]

\* on_start that leaves position_ and the stop levels as the last run set them
on_start_keep_position(s) ==
  [ s EXCEPT
    !.closes_ = <<>>,
    !.ema_fast_ = <<>>, !.ema_slow_ = <<>>, !.macd_line_ = <<>>,
    !.signal_line_ = <<>>, !.histogram_ = <<>>, !.macd_ = 0, !.signal_ = 0,
    !.quantity = 0, !.avg_entry_price = 0, !.current_price = 0, !.unrealized_pnl = 0,
    !.portfolio_value_ = InitialCapital * Mills,
    !.cash_ = InitialCapital * Mills,
    !.fees_paid_ = 0,
    !.peak_portfolio_value_ = InitialCapital * Mills,
    !.max_drawdown_ = [num |-> 0, den |-> 1],
    !.previous_value_ = InitialCapital * Mills,
    !.last_price_ = 0, !.last_date_ = 0,
    !.trades_ = NoTrades,
    !.short_sma_ = 0, !.long_sma_ = 0 ]

on_start(s) ==
  [ s EXCEPT
    !.closes_ = <<>>,
    !.ema_fast_ = <<>>, !.ema_slow_ = <<>>, !.macd_line_ = <<>>,
    !.signal_line_ = <<>>, !.histogram_ = <<>>, !.macd_ = 0, !.signal_ = 0,
    !.quantity = 0, !.avg_entry_price = 0, !.current_price = 0, !.unrealized_pnl = 0,
    !.portfolio_value_ = InitialCapital * Mills,
    !.cash_ = InitialCapital * Mills,
    !.fees_paid_ = 0,
    !.peak_portfolio_value_ = InitialCapital * Mills,
    !.max_drawdown_ = [num |-> 0, den |-> 1],
    !.previous_value_ = InitialCapital * Mills,
    !.last_price_ = 0, !.last_date_ = 0,
    !.trades_ = NoTrades,
    !.short_sma_ = 0, !.long_sma_ = 0,
    !.position_ = 0,
    !.stop_loss_price_ = 0, !.take_profit_price_ = 0, !.trailing_stop_price_ = 0 ]

-----------------------------------------------------------------------------
(* Indicators and signals *)

\* SmaCrossStrategy::calculate_smas.  short_sma_ and long_sma_ are held
\* multiplied by sw_ * lw_, so that both are integers on one scale.
calculate_smas(s) ==
  LET size == Len(s.closes_)
      sw == s.cfg.sw_
      lw == s.cfg.lw_
  IN  [s EXCEPT
        !.short_sma_ = IF size >= sw THEN SumSeq(LastN(s.closes_, sw)) * lw ELSE @,
        !.long_sma_ = IF size >= lw THEN SumSeq(LastN(s.closes_, lw)) * sw ELSE @]

\* SmaCrossStrategy::generate_signal
sma_generate_signal(s) ==
  IF s.short_sma_ = 0 \/ s.long_sma_ = 0 THEN 0
  ELSE IF s.short_sma_ > s.long_sma_ THEN 1
  ELSE IF s.short_sma_ < s.long_sma_ THEN -1
  ELSE 0

\* one exponential moving average of MacdMomentumStrategy::calculate_emas,
\* in units of 1 / MacdDen dollar
NextEma(ema, closes, period) ==
  IF ema = <<>>
  THEN IF Len(closes) >= period
       THEN Append(ema, (SumSeq(LastN(closes, period)) * MacdDen) \div period)
       ELSE ema
  ELSE Append(ema, (2 * closes[Len(closes)] * MacdDen + (period - 1) * ema[Len(ema)])
                     \div (period + 1))

calculate_emas(s) ==
  [s EXCEPT !.ema_fast_ = NextEma(s.ema_fast_, s.closes_, s.cfg.fast_period_),
            !.ema_slow_ = NextEma(s.ema_slow_, s.closes_, s.cfg.slow_period_)]

\* MacdMomentumStrategy::calculate_macd
calculate_macd(s) ==
  Bind(calculate_emas(s), LAMBDA s1 :
  Bind(IF Len(s1.ema_fast_) >= s1.cfg.slow_period_
       THEN LET m == s1.ema_fast_[Len(s1.ema_fast_)] - s1.ema_slow_[Len(s1.ema_slow_)]
            IN  [s1 EXCEPT !.macd_ = m, !.macd_line_ = Append(s1.macd_line_, m)]
       ELSE s1, LAMBDA s2 :
  Bind(IF Len(s2.macd_line_) >= s2.cfg.signal_period_
       THEN LET g == SumSeq(LastN(s2.macd_line_, s2.cfg.signal_period_))
                       \div s2.cfg.signal_period_
            IN  [s2 EXCEPT !.signal_ = g, !.signal_line_ = Append(s2.signal_line_, g)]
       ELSE s2, LAMBDA s3 :
    IF s3.macd_line_ # <<>> /\ s3.signal_line_ # <<>>
    THEN [s3 EXCEPT !.histogram_ =
            Append(s3.histogram_, s3.macd_line_[Len(s3.macd_line_)]
                                  - s3.signal_line_[Len(s3.signal_line_)])]
    ELSE s3)))

\* MacdMomentumStrategy::generate_signal
macd_generate_signal(s) ==
  IF Len(s.histogram_) < 2 THEN 0
  ELSE LET current_hist == s.histogram_[Len(s.histogram_)]
           previous_hist == s.histogram_[Len(s.histogram_) - 1]
       IN  IF previous_hist <= 0 /\ current_hist > 0 THEN 1
           ELSE IF previous_hist >= 0 /\ current_hist < 0 THEN -1
           ELSE IF current_hist > s.cfg.overbought_level_ * MacdDen THEN -1
           ELSE IF current_hist < s.cfg.oversold_level_ * MacdDen THEN 1
           ELSE 0

\* number of closes on_bar needs before it trades
WarmUp(cfg) ==
  IF cfg.kind = "SMA" THEN cfg.lw_ ELSE cfg.slow_period_ + cfg.signal_period_

calculate_indicators(s) ==
  IF s.cfg.kind = "SMA" THEN calculate_smas(s) ELSE calculate_macd(s)

generate_signal(s) ==
  IF s.cfg.kind = "SMA" THEN sma_generate_signal(s) ELSE macd_generate_signal(s)

-----------------------------------------------------------------------------
(* Position sizing *)

ExitTrades(s) == SelectSeq(s.trades_, LAMBDA t : t.type = "EXIT")
WinningExits(s) == SelectSeq(s.trades_, LAMBDA t : t.type = "EXIT" /\ t.pnl > 0)
LosingExits(s) == SelectSeq(s.trades_, LAMBDA t : t.type = "EXIT" /\ t.pnl < 0)

RECURSIVE SumPnl(_)
SumPnl(q) == IF q = <<>> THEN 0 ELSE q[1].pnl + SumPnl(Tail(q))

\* Kelly fraction in 1/1000, truncated:
\*   win_rate - (1 - win_rate) * avg_loss / avg_win, with avg_loss < 0
KellyPermille(s) ==
  LET n == Len(ExitTrades(s))
      k == Len(WinningExits(s))
      m == Len(LosingExits(s))
      total_wins == SumPnl(WinningExits(s))
      total_losses == SumPnl(LosingExits(s))
      \* -avg_loss / avg_win, in 1/1000
      ratio == ((((-total_losses) * PermilleDen) \div total_wins) * k) \div m
  IN  (k * PermilleDen) \div n + ((n - k) * ratio) \div n

\* calculate_base_position_size that falls back to the minimum fraction
calculate_base_position_size_minimum(s, portfolio_value) ==
  LET rc == RiskConfig(s.cfg.kind)
      n == Len(ExitTrades(s))
      k == Len(WinningExits(s))
      m == Len(LosingExits(s))
  IN  IF n = 0 \/ k = 0 \/ m = 0
      THEN portfolio_value \div PermilleDen
      ELSE (portfolio_value \div PermilleDen)
             * Max2(Min2(KellyPermille(s), rc.max_portfolio_risk), 1)

\* calculate_base_position_size, in mills
calculate_base_position_size(s, portfolio_value) ==
  LET rc == RiskConfig(s.cfg.kind)
      n == Len(ExitTrades(s))
      k == Len(WinningExits(s))
      m == Len(LosingExits(s))
  IN  IF n = 0 \/ k = 0 \/ m = 0
      THEN (portfolio_value \div PermilleDen) * rc.max_portfolio_risk
      ELSE (portfolio_value \div PermilleDen)
             * Max2(Min2(KellyPermille(s), rc.max_portfolio_risk), 1)

\* closes needed before volatility scales the size
VolMinCloses == 20

\* returns are held in 1/10000
BpDen == 100 * 100

\* a / b rounded to the nearest integer (b # 0)
RoundDiv(a, b) ==
  LET n == IF b < 0 THEN -a ELSE a
      d == Abs(b)
  IN  IF n >= 0 THEN (2 * n + d) \div (2 * d) ELSE -((2 * (-n) + d) \div (2 * d))

\* the largest r in lo..hi with r * r <= n
RECURSIVE ISqrtIn(_, _, _)
ISqrtIn(n, lo, hi) ==
  IF lo = hi THEN lo
  ELSE LET mid == (lo + hi + 1) \div 2
       IN  IF mid * mid <= n THEN ISqrtIn(n, mid, hi) ELSE ISqrtIn(n, lo, mid - 1)

\* std::sqrt, truncated (40000 * 40000 is the largest square TLC's integers hold)
ISqrt(n) == ISqrtIn(n, 0, 40000)

RECURSIVE SumSquares(_, _)
SumSquares(q, mean) ==
  IF q = <<>> THEN 0 ELSE (q[1] - mean) * (q[1] - mean) + SumSquares(Tail(q), mean)

\* the close-to-close returns of the history, in 1/10000
Returns(closes) ==
  [i \in 1..(Len(closes) - 1) |-> RoundDiv((closes[i + 1] - closes[i]) * BpDen, closes[i])]

\* the sample standard deviation of the returns, in 1/10000
Volatility(closes) ==
  Bind(Returns(closes), LAMBDA returns :
  Bind(RoundDiv(SumSeq(returns), Len(returns)), LAMBDA mean_return :
    ISqrt(SumSquares(returns, mean_return) \div (Len(returns) - 1))))

\* MacdMomentumStrategy::calculate_volatility_adjustment, for SmaCrossStrategy
\* as well
calculate_volatility_adjustment_momentum(s) ==
  IF Len(s.closes_) < VolMinCloses THEN PctDen
  ELSE IF \E i \in 1..(Len(s.closes_) - 1) : s.closes_[i] = 0 THEN 2 * PctDen
  ELSE Bind(Max2(Volatility(s.closes_), 10), LAMBDA current_volatility :
         Max2(50, Min2(200, (current_volatility * PctDen) \div 200)))

\* calculate_volatility_adjustment, in 1/100.  Target volatility is 0.02 and
\* the floor of the measured one 0.001.  A zero close in the history makes a
\* return infinite and the volatility NaN, which std::max and std::min pass
\* on so that the result is the cap 2.0.  SmaCrossStrategy divides the target
\* by the measured volatility, MacdMomentumStrategy the measured one by the
\* target.
calculate_volatility_adjustment(s) ==
  IF Len(s.closes_) < VolMinCloses THEN PctDen
  ELSE IF \E i \in 1..(Len(s.closes_) - 1) : s.closes_[i] = 0 THEN 2 * PctDen
  ELSE Bind(Max2(Volatility(s.closes_), 10), LAMBDA current_volatility :
         IF s.cfg.kind = "SMA"
         THEN Max2(50, Min2(200, (200 * PctDen) \div current_volatility))
         ELSE Max2(50, Min2(200, (current_volatility * PctDen) \div 200)))

\* calculate_position_size without the final bounds
calculate_position_size_unbounded(s, portfolio_value) ==
  Bind(calculate_base_position_size(s, portfolio_value), LAMBDA base_position_size :
    (base_position_size * calculate_volatility_adjustment(s)) \div PctDen)

\* calculate_position_size, in mills
calculate_position_size(s, portfolio_value) ==
  LET rc == RiskConfig(s.cfg.kind)
  IN  Bind(calculate_base_position_size(s, portfolio_value), LAMBDA base_position_size :
        IF ~rc.enable_volatility_sizing THEN base_position_size
        ELSE Bind(calculate_volatility_adjustment(s), LAMBDA volatility_adjustment :
             LET adjusted_size == (base_position_size * volatility_adjustment) \div PctDen
                 min_size == portfolio_value \div PermilleDen
                 max_size == (portfolio_value \div PermilleDen) * rc.max_portfolio_risk
             IN  Max2(min_size, Min2(max_size, adjusted_size))))

\* SmaCrossStrategy::calculate_atr, in 1/100 dollar: the mean of the last
\* period absolute close-to-close changes.  No function of either strategy
\* calls it or the ATR levels built on it.
calculate_atr(s, period) ==
  LET size == Len(s.closes_)
  IN  IF size < period + 1 THEN 0
      ELSE (SumSeq([i \in 1..period |->
                     Abs(s.closes_[size - period + i] - s.closes_[size - period + i - 1])])
              * PctDen) \div period

\* SmaCrossStrategy::is_in_recovery_mode: the drawdown from the peak is at
\* least 80 % of max_drawdown.  Only get_adjusted_risk_per_trade calls it.
is_in_recovery_mode(s) ==
  IF s.portfolio_value_ >= s.peak_portfolio_value_ THEN FALSE
  ELSE ~FracGT(4 * RiskConfig(s.cfg.kind).max_drawdown, 5 * PermilleDen,
               s.peak_portfolio_value_ - s.portfolio_value_, s.peak_portfolio_value_)

\* SmaCrossStrategy::get_adjusted_risk_per_trade, in 1/1000.  Nothing calls it.
get_adjusted_risk_per_trade(s) ==
  IF is_in_recovery_mode(s) THEN RiskConfig(s.cfg.kind).recovery_mode_risk
  ELSE RiskConfig(s.cfg.kind).max_portfolio_risk

-----------------------------------------------------------------------------
(* Position bookkeeping *)

\* update_position_value
update_position_value(s, current_price) ==
  IF s.quantity = 0
  THEN [s EXCEPT !.portfolio_value_ = s.cash_]
  ELSE [s EXCEPT
         !.current_price = current_price,
         !.unrealized_pnl = s.quantity * (current_price - s.avg_entry_price) * Mills,
         !.portfolio_value_ = s.cash_ + s.quantity * current_price * Mills]

\* calculate_stop_loss / calculate_take_profit (percentage levels), in 1/100 dollar
calculate_stop_loss(s, entry_price) ==
  entry_price * (PctDen - RiskConfig(s.cfg.kind).stop_loss_pct)

\* calculate_take_profit at twice the configured distance
calculate_take_profit_twice(s, entry_price) ==
  entry_price * (PctDen + 2 * RiskConfig(s.cfg.kind).take_profit_pct)

calculate_take_profit(s, entry_price) ==
  entry_price * (PctDen + RiskConfig(s.cfg.kind).take_profit_pct)

\* open_position
open_position(s, date, price, direction) ==
  Bind(calculate_position_size(s, s.portfolio_value_), LAMBDA position_size :
    IF price <= 0 THEN s
    ELSE IF position_size <= 0 THEN s
    ELSE
      Bind(position_size \div (price * Mills), LAMBDA quantity :
        LET rc == RiskConfig(s.cfg.kind)
            notional == quantity * price * Mills
            entry_trade == [date |-> date,
                            side |-> IF direction > 0 THEN "BUY" ELSE "SELL",
                            type |-> "ENTRY", price |-> price, quantity |-> quantity,
                            pnl |-> 0]
            fee_amount == (s.cfg.fee_ * notional) \div PermilleDen
        IN  Bind([s EXCEPT
                   !.trades_ = Append(s.trades_, entry_trade),
                   !.avg_entry_price = price,
                   !.current_price = price,
                   !.unrealized_pnl = 0,
                   !.quantity = IF direction > 0 THEN quantity ELSE -quantity,
                   !.fees_paid_ = s.fees_paid_ + fee_amount,
                   !.cash_ = IF direction > 0
                             THEN s.cash_ - (notional + fee_amount)
                             ELSE s.cash_ + (notional - fee_amount),
                   !.stop_loss_price_ =
                      IF direction > 0 THEN calculate_stop_loss(s, price)
                      ELSE price * (PctDen + rc.stop_loss_pct),
                   !.take_profit_price_ =
                      IF direction > 0 THEN calculate_take_profit(s, price)
                      ELSE price * (PctDen - rc.take_profit_pct),
                   !.trailing_stop_price_ =
                      IF direction > 0 THEN price * (PctDen - rc.trailing_stop_pct)
                      ELSE price * (PctDen + rc.trailing_stop_pct)],
                 LAMBDA s1 : update_position_value(s1, price))))

\* close_position that nets only the exit fee from the pnl it records
close_position_exit_fee(s, date, price) ==
  IF s.quantity = 0 \/ price <= 0
  THEN [s EXCEPT !.portfolio_value_ = s.cash_]
  ELSE
    LET quantity == s.quantity
        abs_quantity == Abs(quantity)
        exit_value == abs_quantity * price * Mills
        pnl == quantity * (price - s.avg_entry_price) * Mills
        exit_fee == (s.cfg.fee_ * exit_value) \div PermilleDen
        cash == IF quantity > 0 THEN s.cash_ + (exit_value - exit_fee)
                ELSE s.cash_ - (exit_value + exit_fee)
        exit_trade == [date |-> date,
                       side |-> IF quantity > 0 THEN "SELL" ELSE "BUY",
                       type |-> "EXIT", price |-> price, quantity |-> abs_quantity,
                       pnl |-> pnl - exit_fee]
    IN  [s EXCEPT
          !.cash_ = cash,
          !.fees_paid_ = s.fees_paid_ + exit_fee,
          !.trades_ = Append(s.trades_, exit_trade),
          !.quantity = 0, !.avg_entry_price = 0, !.current_price = 0,
          !.unrealized_pnl = 0,
          !.stop_loss_price_ = 0, !.take_profit_price_ = 0, !.trailing_stop_price_ = 0,
          !.portfolio_value_ = cash]

\* close_position
close_position(s, date, price) ==
  IF s.quantity = 0 \/ price <= 0
  THEN [s EXCEPT !.portfolio_value_ = s.cash_]
  ELSE
    LET quantity == s.quantity
        abs_quantity == Abs(quantity)
        entry_value == abs_quantity * s.avg_entry_price * Mills
        exit_value == abs_quantity * price * Mills
        pnl == quantity * (price - s.avg_entry_price) * Mills
        total_fees == (s.cfg.fee_ * (entry_value + exit_value)) \div PermilleDen
        net_pnl == pnl - total_fees
        exit_fee == (s.cfg.fee_ * exit_value) \div PermilleDen
        cash == IF quantity > 0 THEN s.cash_ + (exit_value - exit_fee)
                ELSE s.cash_ - (exit_value + exit_fee)
        exit_trade == [date |-> date,
                       side |-> IF quantity > 0 THEN "SELL" ELSE "BUY",
                       type |-> "EXIT", price |-> price, quantity |-> abs_quantity,
                       pnl |-> net_pnl]
    IN  [s EXCEPT
          !.cash_ = cash,
          !.fees_paid_ = s.fees_paid_ + exit_fee,
          !.trades_ = Append(s.trades_, exit_trade),
          !.quantity = 0, !.avg_entry_price = 0, !.current_price = 0,
          !.unrealized_pnl = 0,
          !.stop_loss_price_ = 0, !.take_profit_price_ = 0, !.trailing_stop_price_ = 0,
          !.portfolio_value_ = cash]

\* update_trailing_stop
update_trailing_stop(s, current_price) ==
  LET rc == RiskConfig(s.cfg.kind)
  IN  IF s.quantity > 0
      THEN LET new_trailing_stop == current_price * (PctDen - rc.trailing_stop_pct)
           IN  IF new_trailing_stop > s.trailing_stop_price_
               THEN [s EXCEPT !.trailing_stop_price_ = new_trailing_stop]
               ELSE s
      ELSE IF s.quantity < 0
      THEN LET new_trailing_stop == current_price * (PctDen + rc.trailing_stop_pct)
           IN  IF s.trailing_stop_price_ = 0 \/ new_trailing_stop < s.trailing_stop_price_
               THEN [s EXCEPT !.trailing_stop_price_ = new_trailing_stop]
               ELSE s
      ELSE s

\* should_exit_position: the verdict, and the object after the call (the call
\* ratchets the trailing stop when it does not exit)
should_exit_position(s, close) ==
  LET rc == RiskConfig(s.cfg.kind)
      current_price == close * PctDen
      yes == [exit |-> TRUE, s |-> s]
  IN  IF s.quantity > 0
      THEN IF s.stop_loss_price_ > 0 /\ current_price <= s.stop_loss_price_ THEN yes
           ELSE IF s.take_profit_price_ > 0 /\ current_price >= s.take_profit_price_ THEN yes
           ELSE IF rc.enable_trailing_stop /\ s.trailing_stop_price_ > 0
           THEN IF current_price <= s.trailing_stop_price_ THEN yes
                ELSE [exit |-> FALSE, s |-> update_trailing_stop(s, close)]
           ELSE [exit |-> FALSE, s |-> s]
      ELSE IF s.quantity < 0
      THEN IF s.stop_loss_price_ > 0 /\ current_price >= s.stop_loss_price_ THEN yes
           ELSE IF s.take_profit_price_ > 0 /\ current_price <= s.take_profit_price_ THEN yes
           ELSE IF rc.enable_trailing_stop /\ s.trailing_stop_price_ > 0
           THEN IF current_price >= s.trailing_stop_price_ THEN yes
                ELSE [exit |-> FALSE, s |-> update_trailing_stop(s, close)]
           ELSE [exit |-> FALSE, s |-> s]
      ELSE [exit |-> FALSE, s |-> s]

\* the verdict of should_exit_position for the position held, if any
ExitCheck(s, bar) ==
  IF s.quantity # 0 THEN should_exit_position(s, bar.close)
  ELSE [exit |-> FALSE, s |-> s]

\* the signal differs from position_: close what is held, open what is asked for
FollowSignal(s, bar, signal) ==
  Bind(IF s.quantity # 0 THEN close_position(s, bar.date, bar.close) ELSE s, LAMBDA s1 :
  Bind(IF signal # 0 THEN open_position(s1, bar.date, bar.close, signal) ELSE s1, LAMBDA s2 :
    [s2 EXCEPT !.position_ = signal]))

\* execute_trading_logic that opens the new position without closing the old one
execute_trading_logic_noclose(s, bar, signal) ==
  Bind(ExitCheck(s, bar), LAMBDA chk :
    IF chk.exit
    THEN close_position(s, bar.date, bar.close)
    ELSE IF signal # chk.s.position_
    THEN Bind(IF signal # 0 THEN open_position(chk.s, bar.date, bar.close, signal) ELSE chk.s,
              LAMBDA s2 : update_position_value([s2 EXCEPT !.position_ = signal], bar.close))
    ELSE update_position_value(chk.s, bar.close))

\* execute_trading_logic
execute_trading_logic(s, bar, signal) ==
  Bind(ExitCheck(s, bar), LAMBDA chk :
    IF chk.exit
    THEN close_position(s, bar.date, bar.close)
    ELSE IF signal # chk.s.position_
    THEN Bind(FollowSignal(chk.s, bar, signal), LAMBDA s3 :
           update_position_value(s3, bar.close))
    ELSE update_position_value(chk.s, bar.close))

\* update_performance_metrics that keeps the current drawdown, not the maximum
update_performance_metrics_current(s) ==
  LET pv == s.portfolio_value_
      peak == IF pv > s.peak_portfolio_value_ THEN pv ELSE s.peak_portfolio_value_
  IN  [s EXCEPT !.peak_portfolio_value_ = peak,
                !.max_drawdown_ = IF peak > 0 THEN [num |-> peak - pv, den |-> peak]
                                  ELSE s.max_drawdown_,
                !.previous_value_ = pv]

\* update_performance_metrics (peak, running maximum drawdown, previous value)
update_performance_metrics(s) ==
  LET pv == s.portfolio_value_
      peak == IF pv > s.peak_portfolio_value_ THEN pv ELSE s.peak_portfolio_value_
      dd == IF peak > 0 /\ FracGT(peak - pv, peak, s.max_drawdown_.num, s.max_drawdown_.den)
            THEN [num |-> peak - pv, den |-> peak]
            ELSE s.max_drawdown_
  IN  [s EXCEPT !.peak_portfolio_value_ = peak,
                !.max_drawdown_ = dd,
                !.previous_value_ = pv]

\* on_bar
on_bar(s, b) ==
  Bind([s EXCEPT !.closes_ = Append(s.closes_, b.close)], LAMBDA s1 :
    IF Len(s1.closes_) < WarmUp(s.cfg)
    THEN update_position_value(s1, b.close)
    ELSE
      Bind(calculate_indicators(s1), LAMBDA s2 :
      Bind(generate_signal(s2), LAMBDA signal :
      Bind(execute_trading_logic(s2, b, signal), LAMBDA s3 :
        update_performance_metrics(
          [s3 EXCEPT !.last_price_ = b.close, !.last_date_ = b.date])))))

\* on_finish that always closes at last_price_
on_finish_last_price(s) ==
  LET exit_date == IF s.last_date_ # 0 THEN s.last_date_ ELSE 0
  IN  Bind(IF s.quantity # 0 THEN close_position(s, exit_date, s.last_price_) ELSE s,
           LAMBDA s1 : [s1 EXCEPT !.portfolio_value_ = s1.cash_])

\* on_finish
on_finish(s) ==
  LET exit_price == IF s.last_price_ > 0 THEN s.last_price_ ELSE s.avg_entry_price
      exit_date == IF s.last_date_ # 0 THEN s.last_date_ ELSE 0
  IN  Bind(IF s.quantity # 0 THEN close_position(s, exit_date, exit_price) ELSE s,
           LAMBDA s1 : [s1 EXCEPT !.portfolio_value_ = s1.cash_])

-----------------------------------------------------------------------------
(* The simulation run: StrategyTester::run_strategy_simulation drives one    *)
(* strategy object through on_start, on_bar for each bar, on_finish.         *)

NoObs == [op |-> "none"]

\* the values the other components hold while a specification does not use them
NoTester == [pc |-> "idle"]
NoDb == [open |-> FALSE]
NoWorkers == <<>>

BarLimit(cfg) == IF cfg.kind = "SMA" THEN MaxBars ELSE MaxMacdBars
Closes(cfg) == IF cfg.kind = "SMA" THEN SmaCloses ELSE MacdCloses

SimInit ==
  /\ strat \in { Constructed(cfg) : cfg \in SmaConfigs \cup MacdConfigs }
  /\ phase = "new"
  /\ obs = NoObs
  /\ tester = NoTester
  /\ db = NoDb
  /\ workers = NoWorkers

OnStart ==
  /\ phase = "new"
  /\ strat' = on_start(strat)
  /\ phase' = "running"
  /\ obs' = [op |-> "on_start"]
  /\ UNCHANGED <<tester, db, workers>>

\* one bar of the feed; dates increase strictly, as validation has established
OnBar ==
  /\ phase = "running"
  /\ Len(strat.closes_) < BarLimit(strat.cfg)
  /\ \E c \in Closes(strat.cfg) :
       LET b == [date |-> Len(strat.closes_) + 1, close |-> c]
           ind == calculate_indicators([strat EXCEPT !.closes_ = Append(strat.closes_, c)])
           warm == Len(strat.closes_) + 1 >= WarmUp(strat.cfg)
       IN  /\ strat' = on_bar(strat, b)
           /\ obs' = [op |-> "on_bar", bar |-> b, warm |-> warm,
                      signal |-> IF warm THEN generate_signal(ind) ELSE 0,
                      pre |-> strat]
  /\ UNCHANGED <<phase, tester, db, workers>>

OnFinish ==
  /\ phase = "running"
  /\ strat' = on_finish(strat)
  /\ phase' = "finished"
  /\ obs' = [op |-> "on_finish", pre |-> strat]
  /\ UNCHANGED <<tester, db, workers>>

SimNext == OnStart \/ OnBar \/ OnFinish

SimSpec == SimInit /\ [][SimNext]_vars

-----------------------------------------------------------------------------
(* Long runs: the same strategy objects driven through a fixed feed, far     *)
(* enough for the volatility and ATR windows to fill.                        *)

MaxRunBars == 22

\* the closes of a feed: bar i of
\*   flat    100 throughout
\*   calm    200 and 201 in turn (returns of half a percent)
\*   swing   100 and 103 in turn (returns of three percent)
\*   choppy  100 and 106 in turn (returns of six percent)
\*   crash   100, 99, then 500 and 499 in turn: a short loses 8 % of the capital
\*   ruin    100, 99, then 5300 and 5299 in turn: a short loses all the capital
FeedClose(feed, i) ==
  CASE feed = "flat" -> 100
    [] feed = "calm" -> 200 + (i % 2)
    [] feed = "swing" -> 100 + 3 * (i % 2)
    [] feed = "choppy" -> 100 + 6 * (i % 2)
    [] feed = "crash" -> IF i = 1 THEN 100 ELSE IF i = 2 THEN 99 ELSE 499 + (i % 2)
    [] feed = "ruin" -> IF i = 1 THEN 100 ELSE IF i = 2 THEN 99 ELSE 5299 + (i % 2)

LongFeeds == {"flat", "calm", "swing", "choppy"}
ShortFeeds == {"crash", "ruin"}

\* the bars a feed delivers before it ends
ShortFeedBars == 5
FeedLength(feed) == IF feed \in ShortFeeds THEN ShortFeedBars ELSE MaxRunBars

RunInit ==
  /\ strat \in { Constructed(cfg) : cfg \in SmaConfigs \cup MacdConfigs }
  /\ phase = "new"
  /\ obs = NoObs
  /\ tester \in { [pc |-> "feed", feed |-> f] : f \in LongFeeds \cup ShortFeeds }
  /\ db = NoDb
  /\ workers = NoWorkers

\* the next bar of the feed
RunBar ==
  /\ phase = "running"
  /\ tester.pc = "feed"
  /\ Len(strat.closes_) < Min2(FeedLength(tester.feed),
                                IF strat.cfg.kind = "SMA" THEN MaxRunBars ELSE MaxMacdBars)
  /\ LET b == [date |-> Len(strat.closes_) + 1,
               close |-> FeedClose(tester.feed, Len(strat.closes_) + 1)]
         ind == calculate_indicators([strat EXCEPT !.closes_ = Append(strat.closes_, b.close)])
         warm == Len(strat.closes_) + 1 >= WarmUp(strat.cfg)
     IN  /\ strat' = on_bar(strat, b)
         /\ obs' = [op |-> "on_bar", bar |-> b, warm |-> warm,
                    signal |-> IF warm THEN generate_signal(ind) ELSE 0,
                    pre |-> strat]
  /\ UNCHANGED <<phase, tester, db, workers>>

RunNext == OnStart \/ RunBar \/ OnFinish

RunSpec == RunInit /\ [][RunNext]_vars

-----------------------------------------------------------------------------
(* Properties of the simulation engine *)

EntryCount(trades) == Len(SelectSeq(trades, LAMBDA t : t.type = "ENTRY"))
ExitCount(trades) == Len(SelectSeq(trades, LAMBDA t : t.type = "EXIT"))
LastBarClose(s) == s.closes_[Len(s.closes_)]

\* the trades a call appended to the log
Appended(pre, post) == SubSeq(post.trades_, Len(pre.trades_) + 1, Len(post.trades_))

\* the close is at or beyond one of the levels of the position held in s
Breach(s, close) ==
  LET trailing == RiskConfig(s.cfg.kind).enable_trailing_stop /\ s.trailing_stop_price_ > 0
  IN  \/ /\ s.quantity > 0
         /\ \/ s.stop_loss_price_ > 0 /\ close * PctDen <= s.stop_loss_price_
            \/ s.take_profit_price_ > 0 /\ close * PctDen >= s.take_profit_price_
            \/ trailing /\ close * PctDen <= s.trailing_stop_price_
      \/ /\ s.quantity < 0
         /\ \/ s.stop_loss_price_ > 0 /\ close * PctDen >= s.stop_loss_price_
            \/ s.take_profit_price_ > 0 /\ close * PctDen <= s.take_profit_price_
            \/ trailing /\ close * PctDen >= s.trailing_stop_price_

\* C1: after every on_bar the reported portfolio value is cash plus the signed
\* quantity times that bar's close (so it is the cash when flat), for every
\* bar sequence, closes that are not positive included.
C1_PortfolioValue ==
  obs.op = "on_bar" =>
    /\ strat.portfolio_value_ = strat.cash_ + strat.quantity * obs.bar.close * Mills
    /\ (strat.quantity = 0 => strat.portfolio_value_ = strat.cash_)

\* C2: after on_finish the position is flat, the portfolio value is the cash,
\* the log holds as many Exit as Entry trades, and a position that was still
\* open was closed at the last processed close, or at its entry price when
\* that close is not positive.
C2_FinishFlat ==
  phase = "finished" =>
    /\ strat.quantity = 0
    /\ strat.portfolio_value_ = strat.cash_
    /\ ExitCount(strat.trades_) = EntryCount(strat.trades_)
    /\ obs.pre.quantity # 0 =>
         /\ Len(Appended(obs.pre, strat)) = 1
         /\ LET t == strat.trades_[Len(strat.trades_)]
            IN  /\ t.type = "EXIT"
                /\ t.quantity = Abs(obs.pre.quantity)
                /\ t.price = IF LastBarClose(obs.pre) > 0
                             THEN LastBarClose(obs.pre)
                             ELSE obs.pre.avg_entry_price
    /\ obs.pre.quantity = 0 => strat.trades_ = obs.pre.trades_

\* a run finished while a position was open whose last close was not positive:
\* the position was closed at its entry price
C2_Witness ==
  /\ phase = "finished"
  /\ obs.pre.quantity # 0
  /\ LastBarClose(obs.pre) <= 0
  /\ strat.trades_[Len(strat.trades_)].price = obs.pre.avg_entry_price

\* C3: the trade log always alternates Entry, Exit, Entry, Exit, ... from an
\* Entry; the position is flat exactly when every Entry has its Exit, and each
\* Exit has the quantity and the opposite side of the Entry before it.
C3_TradeLogAlternates ==
  phase # "new" =>
    /\ \A i \in 1..Len(strat.trades_) :
         LET t == strat.trades_[i]
         IN  IF i % 2 = 1
             THEN t.type = "ENTRY" /\ t.quantity > 0
             ELSE /\ t.type = "EXIT"
                  /\ t.quantity = strat.trades_[i - 1].quantity
                  /\ t.side # strat.trades_[i - 1].side
    /\ (strat.quantity = 0) <=> (Len(strat.trades_) % 2 = 0)
    /\ strat.quantity # 0 =>
         LET e == strat.trades_[Len(strat.trades_)]
         IN  /\ Abs(strat.quantity) = e.quantity
             /\ (strat.quantity > 0) <=> (e.side = "BUY")

\* a bar reversed the position: an Exit and an Entry were appended together
C3_Witness ==
  /\ obs.op = "on_bar"
  /\ obs.pre.quantity * strat.quantity < 0
  /\ Len(strat.trades_) >= 3
  /\ Len(Appended(obs.pre, strat)) = 2

\* C6: on a bar after the warm-up with a positive close and no exit
\* condition firing, a desired direction d that differs from the engine's
\* state (the sign of the held quantity) closes any open position at that
\* close and, when d # 0, opens a position of direction d, so that the sign of
\* the held quantity is d after the bar; the bar after a stop exit included.
C6_SignalFollowed ==
  ( /\ obs.op = "on_bar"
    /\ obs.warm
    /\ obs.bar.close > 0
    /\ ~Breach(obs.pre, obs.bar.close)
    /\ obs.signal # Sign(obs.pre.quantity) )
  => /\ Sign(strat.quantity) = obs.signal
     /\ Len(Appended(obs.pre, strat)) =
          (IF obs.pre.quantity # 0 THEN 1 ELSE 0) + (IF obs.signal # 0 THEN 1 ELSE 0)

\* the exit trade of C7: one Exit at the bar's close, nothing else, flat, levels reset
ExitedAtClose ==
  /\ Len(Appended(obs.pre, strat)) = 1
  /\ LET t == strat.trades_[Len(strat.trades_)]
     IN  t.type = "EXIT" /\ t.price = obs.bar.close /\ t.date = obs.bar.date
  /\ strat.quantity = 0
  /\ strat.stop_loss_price_ = 0
  /\ strat.take_profit_price_ = 0
  /\ strat.trailing_stop_price_ = 0

\* C7: on any bar on which a position is held and the close breaches
\* a level, exactly one Exit at that close is appended, no Entry, the position
\* becomes flat and the three levels are reset to 0.
C7_ExitOnAnyBreach ==
  (obs.op = "on_bar" /\ obs.pre.quantity # 0 /\ Breach(obs.pre, obs.bar.close))
  => ExitedAtClose

\* the last on_bar call opened a position: the Entry is the last trade
EntryOpened ==
  /\ obs.op = "on_bar"
  /\ Len(strat.trades_) > Len(obs.pre.trades_)
  /\ strat.trades_[Len(strat.trades_)].type = "ENTRY"

EntryTrade == strat.trades_[Len(strat.trades_)]
EntryNotional == EntryTrade.quantity * EntryTrade.price * Mills
EntryFee == (strat.cfg.fee_ * EntryNotional) \div PermilleDen

\* the portfolio value open_position sized the Entry from: the cash it found
PortfolioValueAtEntry ==
  IF EntryTrade.side = "BUY"
  THEN strat.cash_ + EntryNotional + EntryFee
  ELSE strat.cash_ - EntryNotional + EntryFee

\* the trade log open_position found
HistoryAtEntry == [trades_ |-> SubSeq(strat.trades_, 1, Len(strat.trades_) - 1)]

\* the whole shares a position of the given fraction (in 1/1000) of the
\* portfolio value buys at the Entry's price
SharesFor(permille) ==
  ((PortfolioValueAtEntry \div PermilleDen) * permille) \div (EntryTrade.price * Mills)

\* f = winRate - (1 - winRate) * |avgLoss| / avgWin is at most 1/1000, for a
\* history h with winning and losing exits:
\*   |avgLoss| / avgWin >= (1000 k - n) / (1000 (n - k))
KellyAtMostMinimum(h) ==
  LET n == Len(ExitTrades(h))
      k == Len(WinningExits(h))
      m == Len(LosingExits(h))
  IN  ~FracGT(1000 * k - n, 1000 * (n - k),
              (-SumPnl(LosingExits(h))) * k, SumPnl(WinningExits(h)) * m)

\* f is at least the fraction given in 1/1000:
\*   |avgLoss| / avgWin <= (1000 k - permille n) / (1000 (n - k))
KellyAtLeast(h, permille) ==
  LET n == Len(ExitTrades(h))
      k == Len(WinningExits(h))
      m == Len(LosingExits(h))
  IN  /\ 1000 * k >= permille * n
      /\ ~FracGT((-SumPnl(LosingExits(h))) * k, SumPnl(WinningExits(h)) * m,
                 1000 * k - permille * n, 1000 * (n - k))

\* C14: an Entry sized from a history with winning and losing exits has the
\* size portfolio value x clamp(f, 0.001, max_portfolio_risk) with
\* f = winRate - (1 - winRate) x |avgLoss| / avgWin: the minimum 0.001 when
\* f <= 0.001, the maximum when f >= max_portfolio_risk, and a size between
\* the two otherwise.
C14_KellySize ==
  (/\ EntryOpened
   /\ WinningExits(HistoryAtEntry) # <<>>
   /\ LosingExits(HistoryAtEntry) # <<>>) =>
    LET max_portfolio_risk == RiskConfig(strat.cfg.kind).max_portfolio_risk
    IN  /\ KellyAtMostMinimum(HistoryAtEntry) => EntryTrade.quantity = SharesFor(1)
        /\ KellyAtLeast(HistoryAtEntry, max_portfolio_risk)
              => EntryTrade.quantity = SharesFor(max_portfolio_risk)
        /\ EntryTrade.quantity >= SharesFor(1)
        /\ EntryTrade.quantity <= SharesFor(max_portfolio_risk)

\* C15: an Entry sized from a history without a winning exit or without a
\* losing exit (no exits at all included) has the size portfolio value x
\* max_portfolio_risk.
C15_KellyFallback ==
  (/\ EntryOpened
   /\ \/ WinningExits(HistoryAtEntry) = <<>>
      \/ LosingExits(HistoryAtEntry) = <<>>) =>
    EntryTrade.quantity = SharesFor(RiskConfig(strat.cfg.kind).max_portfolio_risk)

\* a position was opened after two losing exits and no winning one
C15_Witness ==
  /\ EntryOpened
  /\ WinningExits(HistoryAtEntry) = <<>>
  /\ Len(LosingExits(HistoryAtEntry)) = 2

\* the object open_position sized the Entry from, as far as sizing reads it
ObjectAtEntry ==
  [ cfg |-> strat.cfg,
    closes_ |-> strat.closes_,
    trades_ |-> HistoryAtEntry.trades_,
    portfolio_value_ |-> PortfolioValueAtEntry,
    peak_portfolio_value_ |-> obs.pre.peak_portfolio_value_ ]

C18_AtrLevels ==
  EntryOpened =>
    LET rc == RiskConfig(strat.cfg.kind)
        p == EntryTrade.price * PctDen
        risk_amount == (calculate_atr(strat, rc.atr_period) * rc.atr_multiplier) \div 10
        dir == IF EntryTrade.side = "BUY" THEN 1 ELSE -1
    IN  IF rc.enable_atr_stops /\ Len(strat.closes_) >= rc.atr_period + 1
        THEN /\ strat.stop_loss_price_ = p - dir * risk_amount
             /\ strat.take_profit_price_ = p + dir * 3 * risk_amount
        ELSE /\ strat.stop_loss_price_ = EntryTrade.price * (PctDen - dir * rc.stop_loss_pct)
             /\ strat.take_profit_price_ = EntryTrade.price * (PctDen + dir * rc.take_profit_pct)

\* C20: an Entry opened while the drawdown from the peak is at least 80 % of
\* max_drawdown has a notional of at most recovery_mode_risk x portfolio
\* value.
C20_RecoverySize ==
  (EntryOpened /\ is_in_recovery_mode(ObjectAtEntry)) =>
    EntryNotional <= (PortfolioValueAtEntry \div PermilleDen)
                       * RiskConfig(strat.cfg.kind).recovery_mode_risk

\* the position of obs.pre was held through the bar
PositionHeld ==
  /\ obs.pre.quantity # 0
  /\ strat.quantity = obs.pre.quantity
  /\ strat.trades_ = obs.pre.trades_

\* the close is at or beyond the trailing-stop level of the position held
TrailingBreach ==
  /\ obs.pre.trailing_stop_price_ > 0
  /\ \/ obs.pre.quantity > 0 /\ obs.bar.close * PctDen <= obs.pre.trailing_stop_price_
     \/ obs.pre.quantity < 0 /\ obs.bar.close * PctDen >= obs.pre.trailing_stop_price_

\* C19: while a long position is held the trailing-stop level does not
\* decrease from bar to bar, while a short one is held it does not increase;
\* an Entry sets the level to entry x (1 -/+ trailing_stop_pct); a bar whose
\* close is at or beyond the level closes the position on that bar.
C19_TrailingStop ==
  obs.op = "on_bar" =>
    /\ (PositionHeld /\ strat.quantity > 0)
          => strat.trailing_stop_price_ >= obs.pre.trailing_stop_price_
    /\ (PositionHeld /\ strat.quantity < 0)
          => strat.trailing_stop_price_ <= obs.pre.trailing_stop_price_
    /\ EntryOpened =>
          strat.trailing_stop_price_ =
            EntryTrade.price * (IF EntryTrade.side = "BUY"
                                THEN PctDen - RiskConfig(strat.cfg.kind).trailing_stop_pct
                                ELSE PctDen + RiskConfig(strat.cfg.kind).trailing_stop_pct)
    /\ TrailingBreach =>
          /\ Appended(obs.pre, strat) # <<>>
          /\ Appended(obs.pre, strat)[1].type = "EXIT"
          /\ Appended(obs.pre, strat)[1].date = obs.bar.date

\* notional of a trade in mills, and the fee charged on it
Notional(t) == t.quantity * t.price * Mills
FeeOn(t) == (strat.cfg.fee_ * Notional(t)) \div PermilleDen

\* C22: every Exit's pnl is signed quantity x (exit price - entry price)
\* minus the fee on the entry notional and on the exit notional, and whenever
\* the position is flat (after on_finish in particular) cash minus the
\* initial 100000 is the sum of the pnl of the Exit trades in the log.
C22_BooksBalance ==
  phase \in {"running", "finished"} =>
    /\ \A i \in 1..Len(strat.trades_) :
         strat.trades_[i].type = "EXIT" =>
           /\ i > 1
           /\ strat.trades_[i - 1].type = "ENTRY"
           /\ LET entry == strat.trades_[i - 1]
                  exit == strat.trades_[i]
                  signed == IF entry.side = "BUY" THEN exit.quantity ELSE -exit.quantity
              IN  exit.pnl = signed * (exit.price - entry.price) * Mills
                               - (FeeOn(entry) + FeeOn(exit))
    /\ strat.quantity = 0 =>
         strat.cash_ - InitialCapital * Mills = SumPnl(ExitTrades(strat))

\* a finished run with fees that closed a long and a short episode
C22_Witness ==
  /\ phase = "finished"
  /\ strat.cfg.fee_ > 0
  /\ strat.quantity = 0
  /\ \E i, j \in 1..Len(strat.trades_) :
       /\ strat.trades_[i].type = "EXIT" /\ strat.trades_[i].side = "SELL"
       /\ strat.trades_[j].type = "EXIT" /\ strat.trades_[j].side = "BUY"
  /\ SumPnl(ExitTrades(strat)) # 0

\* C21: within a run neither the peak equity nor the running max_drawdown
\* decreases over a bar or over on_finish; after every bar past the warm-up
\* the peak is at least the portfolio value and max_drawdown is at least
\* (peak - portfolio value) / peak.
C21_DrawdownMonotone ==
  obs.op \in {"on_bar", "on_finish"} =>
    /\ strat.peak_portfolio_value_ >= obs.pre.peak_portfolio_value_
    /\ ~FracGT(obs.pre.max_drawdown_.num, obs.pre.max_drawdown_.den,
               strat.max_drawdown_.num, strat.max_drawdown_.den)
    /\ (obs.op = "on_bar" /\ obs.warm) =>
         /\ strat.peak_portfolio_value_ > 0
         /\ strat.peak_portfolio_value_ >= strat.portfolio_value_
         /\ ~FracGT(strat.peak_portfolio_value_ - strat.portfolio_value_,
                    strat.peak_portfolio_value_,
                    strat.max_drawdown_.num, strat.max_drawdown_.den)

\* a bar past the warm-up after which the equity is below the peak and the
\* running max_drawdown is larger than the drawdown of that bar
C21_Witness ==
  /\ obs.op = "on_bar"
  /\ obs.warm
  /\ strat.portfolio_value_ < strat.peak_portfolio_value_
  /\ strat.peak_portfolio_value_ > InitialCapital * Mills
  /\ FracGT(strat.max_drawdown_.num, strat.max_drawdown_.den,
            strat.peak_portfolio_value_ - strat.portfolio_value_,
            strat.peak_portfolio_value_)

-----------------------------------------------------------------------------
(* calculate_volatility_adjustment applied to a strategy object that has     *)
(* seen the first bars of a feed.  The object is given by what the function  *)
(* reads: the kind of strategy and closes_.                                  *)

VolInit ==
  /\ \E cfg \in SmaConfigs \cup MacdConfigs, feed \in LongFeeds,
        n \in (VolMinCloses - 2)..MaxRunBars :
       strat = [cfg |-> cfg, closes_ |-> [i \in 1..n |-> FeedClose(feed, i)]]
  /\ phase = "running"
  /\ obs = [op |-> "volatility", pc |-> "call", adjustment |-> 0]
  /\ tester = NoTester
  /\ db = NoDb
  /\ workers = NoWorkers

CalculateVolatilityAdjustment ==
  /\ obs.op = "volatility"
  /\ obs.pc = "call"
  /\ obs' = [obs EXCEPT !.pc = "returned",
                        !.adjustment = calculate_volatility_adjustment(strat)]
  /\ UNCHANGED <<strat, phase, tester, db, workers>>

VolNext == CalculateVolatilityAdjustment

VolSpec == VolInit /\ [][VolNext]_vars

\* max(currentVol, 0.001) of the closes seen, in 1/10000
CurrentVolatility == Max2(Volatility(strat.closes_), 10)

\* adj (in 1/100) is clamp(num / den, 0.5, 2.0), truncated
IsClampedRatio(adj, num, den) ==
  /\ 2 * den <= num => adj = 2 * PctDen
  /\ 2 * num <= den => adj = PctDen \div 2
  /\ (2 * den > num /\ 2 * num > den) =>
       /\ adj * den <= num * PctDen
       /\ (adj + 1) * den > num * PctDen

-----------------------------------------------------------------------------
(* Binary floating point.  The ratio metrics of StrategyTester compare a     *)
(* computed double with 0.0, so their arithmetic is modelled with its        *)
(* rounding: a number is m x 2^e with |m| an integer of MantissaBits bits    *)
(* (or m = 0), and every operation rounds its exact result to the nearest    *)
(* such number, ties to the even mantissa, as IEEE 754 does.  A double has   *)
(* 53 mantissa bits; exponents are not bounded here (no overflow, underflow, *)
(* infinity or NaN).                                                         *)

MantissaBits == 10

FlZero == [m |-> 0, e |-> 0]

\* the nearest number to M x 2^e (M > 0), sticky telling that the exact value
\* is a little larger than M x 2^e
RECURSIVE FlRound(_, _, _)
FlRound(M, e, sticky) ==
  IF M < Pow(2, MantissaBits - 1) THEN FlRound(2 * M, e - 1, sticky)
  ELSE IF M < Pow(2, MantissaBits) THEN [m |-> M, e |-> e]
  ELSE IF M < Pow(2, MantissaBits + 1)
  THEN LET q == M \div 2
           up == (M % 2 = 1) /\ (sticky \/ q % 2 = 1)
       IN  IF ~up THEN [m |-> q, e |-> e + 1]
           ELSE IF q + 1 = Pow(2, MantissaBits)
                THEN [m |-> Pow(2, MantissaBits - 1), e |-> e + 2]
                ELSE [m |-> q + 1, e |-> e + 1]
  ELSE FlRound(M \div 2, e + 1, sticky \/ (M % 2 = 1))

\* the double nearest to the signed integer M x 2^e
FlSigned(M, e, sticky) ==
  Bind(M, LAMBDA v :
    IF v = 0 THEN FlZero
    ELSE Bind(FlRound(Abs(v), e, sticky), LAMBDA r : [m |-> Sign(v) * r.m, e |-> r.e]))

\* static_cast<double>(n)
FlInt(n) == FlSigned(n, 0, FALSE)

FlNeg(a) == Bind(a, LAMBDA x : [m |-> -x.m, e |-> x.e])

\* a + b.  When the exponents differ by more than MantissaBits + 2 the smaller
\* operand is below a quarter of the last place of the larger one.
FlAdd(a, b) ==
  Bind(a, LAMBDA x : Bind(b, LAMBDA y :
    IF x.m = 0 THEN y
    ELSE IF y.m = 0 THEN x
    ELSE IF x.e - y.e > MantissaBits + 2 THEN x
    ELSE IF y.e - x.e > MantissaBits + 2 THEN y
    ELSE IF x.e >= y.e THEN FlSigned(x.m * Pow(2, x.e - y.e) + y.m, y.e, FALSE)
    ELSE FlSigned(y.m * Pow(2, y.e - x.e) + x.m, x.e, FALSE)))

FlSub(a, b) == FlAdd(a, FlNeg(b))

FlMul(a, b) ==
  Bind(a, LAMBDA x : Bind(b, LAMBDA y : FlSigned(x.m * y.m, x.e + y.e, FALSE)))

\* a / b, b # 0: the quotient of the mantissas carried to MantissaBits + 2
\* further bits, the remainder deciding the ties
FlDiv(a, b) ==
  Bind(a, LAMBDA x : Bind(b, LAMBDA y :
    IF x.m = 0 THEN FlZero
    ELSE Bind(Abs(x.m) * Pow(2, MantissaBits + 2), LAMBDA num :
         Bind(FlRound(num \div Abs(y.m), x.e - y.e - (MantissaBits + 2),
                      num % Abs(y.m) # 0), LAMBDA r :
           [m |-> Sign(x.m) * Sign(y.m) * r.m, e |-> r.e]))))

\* std::sqrt(a), a >= 0
FlSqrt(a) ==
  Bind(a, LAMBDA x :
    IF x.m = 0 THEN FlZero
    ELSE Bind(IF (x.e - (MantissaBits + 2)) % 2 = 0
              THEN MantissaBits + 2 ELSE MantissaBits + 3, LAMBDA k :
         Bind(ISqrt(x.m * Pow(2, k)), LAMBDA s :
           FlRound(s, (x.e - k) \div 2, s * s # x.m * Pow(2, k)))))

\* a < b
FlLess(a, b) == FlSub(a, b).m < 0

FlMin(a, b) == Bind(a, LAMBDA x : Bind(b, LAMBDA y : IF FlLess(y, x) THEN y ELSE x))
FlMax(a, b) == Bind(a, LAMBDA x : Bind(b, LAMBDA y : IF FlLess(x, y) THEN y ELSE x))

\* the literal num / den (such as 0.02): the double nearest to it
FlLit(num, den) == FlDiv(FlInt(num), FlInt(den))

RECURSIVE FlSum(_, _)
\* std::accumulate(q.begin(), q.end(), init)
FlSum(q, init) == IF q = <<>> THEN init ELSE FlSum(Tail(q), FlAdd(init, q[1]))

RECURSIVE LongDivision(_, _, _, _)
\* the quotient rem / den carried on, bit by bit, from the bits q (scaled by
\* 2^e) until it has MantissaBits + 2 bits, then rounded
LongDivision(rem, den, q, e) ==
  IF q >= Pow(2, MantissaBits + 1) THEN FlRound(q, e, rem # 0)
  ELSE LongDivision((2 * rem) % den, den, 2 * q + (2 * rem) \div den, e - 1)

\* the double num / den of two doubles that hold the integers num and den
\* exactly (den # 0)
FlRatio(num, den) ==
  IF num = 0 THEN FlZero
  ELSE Bind(LongDivision(Abs(num) % Abs(den), Abs(den), Abs(num) \div Abs(den), 0),
            LAMBDA r : [m |-> Sign(num) * Sign(den) * r.m, e |-> r.e])

\* the double x in units of 1 / scale, rounded to the nearest
FlScaled(x, scale) ==
  Bind(x, LAMBDA v :
    IF v.m = 0 \/ v.e < -(2 * MantissaBits + 10) THEN 0
    ELSE IF v.e >= 0 THEN v.m * scale * Pow(2, v.e)
    ELSE RoundDiv(v.m * scale, Pow(2, -v.e)))

\* the unit composite scores are kept in
FlToPermille(x) == FlScaled(x, PermilleDen)

-----------------------------------------------------------------------------
(* StrategyTester's ratio metrics over a series of returns (doubles) *)

RECURSIVE SumSquaredDeviations(_, _, _)
\* for (double ret : returns) variance += (ret - mean_return) * (ret - mean_return)
SumSquaredDeviations(q, mean_return, variance) ==
  IF q = <<>> THEN variance
  ELSE SumSquaredDeviations(Tail(q), mean_return,
         FlAdd(variance, FlMul(FlSub(q[1], mean_return), FlSub(q[1], mean_return))))

\* (annualized_return - risk_free_rate) / (deviation * sqrt(252))
AnnualizedRatio(mean_return, deviation) ==
  FlDiv(FlSub(FlMul(mean_return, FlInt(252)), FlLit(2, 100)),
        FlMul(deviation, FlSqrt(FlInt(252))))

\* StrategyTester::calculate_sharpe_ratio
calculate_sharpe_ratio(returns) ==
  IF Len(returns) < 2 THEN FlZero
  ELSE
    Bind(FlDiv(FlSum(returns, FlZero), FlInt(Len(returns))), LAMBDA mean_return :
    Bind(FlSqrt(FlDiv(SumSquaredDeviations(returns, mean_return, FlZero),
                      FlInt(Len(returns) - 1))), LAMBDA std_dev :
      IF std_dev.m = 0 THEN FlZero ELSE AnnualizedRatio(mean_return, std_dev)))

RECURSIVE DownsideSquares(_, _)
\* if (ret < 0) downside_variance += ret * ret
DownsideSquares(q, downside_variance) ==
  IF q = <<>> THEN downside_variance
  ELSE DownsideSquares(Tail(q),
         IF q[1].m < 0 THEN FlAdd(downside_variance, FlMul(q[1], q[1]))
         ELSE downside_variance)

\* StrategyTester::calculate_sortino_ratio
calculate_sortino_ratio(returns) ==
  IF Len(returns) < 2 THEN FlZero
  ELSE
    Bind(FlDiv(FlSum(returns, FlZero), FlInt(Len(returns))), LAMBDA mean_return :
    Bind(Len(SelectSeq(returns, LAMBDA ret : ret.m < 0)), LAMBDA downside_count :
    Bind(DownsideSquares(returns, FlZero), LAMBDA downside_variance :
      IF downside_count = 0 \/ downside_variance.m = 0 THEN FlZero
      ELSE AnnualizedRatio(mean_return,
             FlSqrt(FlDiv(downside_variance, FlInt(downside_count)))))))

-----------------------------------------------------------------------------
(* StrategyTester::test_strategy: validation, factory, simulation, metrics *)

MaxTestBars == 3

\* dates a bar can carry: equal and decreasing dates, and a gap of more than
\* five days, can all be formed from them
TestDates == {1, 2, 9}

\* open / high / low / close of a bar: two clean bars, a bar of non-positive
\* prices, and a bar with a price above 1e8 whose high is below its low
TestPrices ==
  { [open |-> 100, high |-> 100, low |-> 100, close |-> 100],
    [open |-> 110, high |-> 110, low |-> 110, close |-> 110],
    [open |-> -100, high |-> -100, low |-> -100, close |-> -100],
    [open |-> 2 * Pow(10, 8), high |-> 90, low |-> 100, close |-> 100] }

TestBars ==
  { [date |-> d, open |-> p.open, high |-> p.high, low |-> p.low, close |-> p.close] :
      d \in TestDates, p \in TestPrices }

RECURSIVE SeqsUpTo(_, _)
SeqsUpTo(S, n) ==
  IF n = 0 THEN { <<>> }
  ELSE LET shorter == SeqsUpTo(S, n - 1)
       IN  shorter \cup { Append(q, x) : q \in { r \in shorter : Len(r) = n - 1 }, x \in S }

\* a double parameter is held in units of 1e-9
Nanos == Pow(10, 9)

\* StrategyTestConfig: SMA(1, 2, fee 0), MACD(2, 1, 2, 1, -1, fee 0.001), and
\* an SMA, a MACD and an RSI configuration with too few parameters and a
\* name the factory does not know
TestConfigs ==
  { [strategy_name |-> "SMA", parameters |-> <<Nanos, 2 * Nanos, 0>>,
     initial_capital |-> InitialCapital * Mills],
    [strategy_name |-> "MACD",
     parameters |-> <<2 * Nanos, Nanos, 2 * Nanos, Nanos, -Nanos, Nanos \div Mills>>,
     initial_capital |-> InitialCapital * Mills],
    [strategy_name |-> "SMA", parameters |-> <<Nanos, 2 * Nanos>>,
     initial_capital |-> InitialCapital * Mills],
    [strategy_name |-> "MACD",
     parameters |-> <<2 * Nanos, Nanos, 2 * Nanos, Nanos, -Nanos>>,
     initial_capital |-> InitialCapital * Mills],
    [strategy_name |-> "RSI", parameters |-> <<2 * Nanos, 2 * Nanos, Nanos, Nanos>>,
     initial_capital |-> InitialCapital * Mills],
    [strategy_name |-> "Momentum", parameters |-> <<Nanos, 2 * Nanos, 0>>,
     initial_capital |-> InitialCapital * Mills] }

Zero == [num |-> 0, den |-> 1]

\* a default-constructed StrategyMetrics carrying the configuration's identity
StrategyMetrics(config) ==
  [ strategy_name |-> config.strategy_name,
    parameters |-> config.parameters,
    total_return |-> Zero,
    sharpe_ratio |-> FlZero,
    max_drawdown |-> Zero,
    win_rate |-> Zero,
    profit_factor |-> Zero,
    avg_trade |-> Zero,
    total_trades |-> 0,
    calmar_ratio |-> FlZero,
    sortino_ratio |-> FlZero,
    var_95 |-> 0,
    expected_shortfall |-> Zero,
    composite_score |-> 0,
    market_data |-> <<>> ]

NoException == "none"

\* validate_chronological_order that accepts every sequence
validate_chronological_order_accept(data) ==
  NoException

\* validate_chronological_order: the exception it throws, if any
validate_chronological_order(data) ==
  IF Len(data) < 2 THEN NoException
  ELSE IF \E i \in 2..Len(data) : data[i].date <= data[i - 1].date
       THEN "Data is NOT in chronological order! Lookahead bias possible."
       ELSE NoException

\* the number of issues validate_data_integrity reports for a non-empty sequence
IntegrityIssues(data) ==
  Cardinality({ i \in 1..Len(data) : data[i].date = 0 })
  + Cardinality({ i \in 1..Len(data) :
        data[i].open <= 0 \/ data[i].high <= 0 \/ data[i].low <= 0 \/ data[i].close <= 0 })
  + Cardinality({ i \in 1..Len(data) :
        \E price \in {data[i].open, data[i].high, data[i].low, data[i].close} :
           price > Pow(10, 8) })

\* the number of gaps of more than five days
GapCount(data) ==
  Cardinality({ i \in 2..Len(data) : data[i].date - data[i - 1].date > 5 })

\* validate_data_integrity that rejects every sequence it finds an issue in
validate_data_integrity_reject(data) ==
  IF data = <<>> THEN "Data integrity validation failed: No data provided"
  ELSE IF IntegrityIssues(data) + GapCount(data) > 0
       THEN "Data integrity validation failed"
       ELSE NoException

\* validate_data_integrity: issues and gaps are printed, only an empty
\* sequence throws
validate_data_integrity(data) ==
  IF data = <<>> THEN "Data integrity validation failed: No data provided"
  ELSE NoException

\* the number of violations validate_ohlc_relationships reports (high and low
\* checks; the intraday-volatility warning divides doubles and never throws)
OhlcViolations(data) ==
  Cardinality({ i \in 1..Len(data) :
      data[i].high < data[i].open \/ data[i].high < data[i].low \/ data[i].high < data[i].close })
  + Cardinality({ i \in 1..Len(data) :
      data[i].low > data[i].open \/ data[i].low > data[i].high \/ data[i].low > data[i].close })

\* validate_ohlc_relationships: violations are printed, nothing is thrown
validate_ohlc_relationships(data) ==
  NoException

NullStrategy == [kind |-> "null"]

\* SmaCrossStrategy's constructor clamps the windows
make_sma_strategy(sw, lw, fee) ==
  LET short_win == Max2(sw, 1)
  IN  [kind |-> "SMA", sw_ |-> short_win, lw_ |-> Max2(lw, short_win), fee_ |-> fee]

make_macd_strategy(fast_period, slow_period, signal_period, overbought, oversold, fee) ==
  [kind |-> "MACD", fast_period_ |-> fast_period, slow_period_ |-> slow_period,
   signal_period_ |-> signal_period, overbought_level_ |-> overbought,
   oversold_level_ |-> oversold, fee_ |-> fee]

\* static_cast<int> of a double parameter: truncation towards zero
ToInt(p) == IF p >= 0 THEN p \div Nanos ELSE -((-p) \div Nanos)

\* a fee parameter in 1/1000 of the notional (whole multiples only)
ToPermille(p) == CASE p >= 0 /\ p % (Nanos \div PermilleDen) = 0 -> p \div (Nanos \div PermilleDen)

\* a level parameter in dollars (whole dollars only)
ToDollars(p) == CASE p % Nanos = 0 -> p \div Nanos

\* create_strategy building an SMA strategy from any three parameters,
\* whatever the name
create_strategy_by_length(strategy_name, parameters) ==
  IF Len(parameters) >= 6
  THEN make_macd_strategy(ToInt(parameters[1]), ToInt(parameters[2]), ToInt(parameters[3]),
                          ToDollars(parameters[4]), ToDollars(parameters[5]),
                          ToPermille(parameters[6]))
  ELSE IF Len(parameters) >= 3
  THEN make_sma_strategy(ToInt(parameters[1]), ToInt(parameters[2]),
                         ToPermille(parameters[3]))
  ELSE NullStrategy

\* StrategyFactory::create_strategy: the configuration of the strategy object
\* it builds, or NullStrategy.  The RSI strategy has no source here.
create_strategy(strategy_name, parameters) ==
  CASE strategy_name = "SMA" /\ Len(parameters) >= 3 ->
         make_sma_strategy(ToInt(parameters[1]), ToInt(parameters[2]),
                           ToPermille(parameters[3]))
    [] strategy_name = "MACD" /\ Len(parameters) >= 6 ->
         make_macd_strategy(ToInt(parameters[1]), ToInt(parameters[2]), ToInt(parameters[3]),
                            ToDollars(parameters[4]), ToDollars(parameters[5]),
                            ToPermille(parameters[6]))
    [] /\ ~(strategy_name = "SMA" /\ Len(parameters) >= 3)
       /\ ~(strategy_name = "RSI" /\ Len(parameters) >= 5)
       /\ ~(strategy_name = "MACD" /\ Len(parameters) >= 6) ->
         NullStrategy

\* calculate_max_drawdown measured from the first value only
calculate_max_drawdown_from_start(portfolio_values) ==
  IF Len(portfolio_values) < 2 THEN Zero
  ELSE LET first == portfolio_values[1]
           values == { portfolio_values[i] : i \in 1..Len(portfolio_values) }
           low == CHOOSE v \in values : \A w \in values : v <= w
       IN  IF low < first THEN [num |-> first - low, den |-> first] ELSE Zero

\* StrategyTester::calculate_max_drawdown
RECURSIVE MaxDrawdownFrom(_, _, _, _)
MaxDrawdownFrom(portfolio_values, i, peak, max_dd) ==
  IF i > Len(portfolio_values) THEN max_dd
  ELSE LET v == portfolio_values[i]
       IN  IF v > peak
           THEN MaxDrawdownFrom(portfolio_values, i + 1, v, max_dd)
           ELSE IF FracGT(peak - v, peak, max_dd.num, max_dd.den)
                THEN MaxDrawdownFrom(portfolio_values, i + 1, peak, [num |-> peak - v, den |-> peak])
                ELSE MaxDrawdownFrom(portfolio_values, i + 1, peak, max_dd)

calculate_max_drawdown(portfolio_values) ==
  IF Len(portfolio_values) < 2 THEN Zero
  ELSE MaxDrawdownFrom(portfolio_values, 2, portfolio_values[1], Zero)

RECURSIVE InsertSorted(_, _)
\* q (ascending) with x inserted in its place
InsertSorted(q, x) ==
  IF q = <<>> THEN <<x>>
  ELSE IF x <= q[1] THEN <<x>> \o q
  ELSE <<q[1]>> \o InsertSorted(Tail(q), x)

RECURSIVE SortAscending(_)
\* std::sort(sorted_returns.begin(), sorted_returns.end())
SortAscending(q) ==
  IF q = <<>> THEN <<>> ELSE InsertSorted(SortAscending(Tail(q)), q[1])

\* StrategyTester::calculate_var.  Returns are in 1/10000, the confidence is
\* the fraction confidence.num / confidence.den.
calculate_var(returns, confidence) ==
  IF returns = <<>> THEN 0
  ELSE
    Bind(SortAscending(returns), LAMBDA sorted_returns :
      LET index == ((confidence.den - confidence.num) * Len(sorted_returns))
                     \div confidence.den
      IN  -sorted_returns[(IF index >= Len(sorted_returns)
                           THEN Len(sorted_returns) - 1 ELSE index) + 1])

\* calculate_expected_shortfall that counts only the losses beyond the VaR
calculate_expected_shortfall_strict(returns, confidence) ==
  IF returns = <<>> THEN Zero
  ELSE
    Bind(calculate_var(returns, confidence), LAMBDA var_threshold :
    Bind(SelectSeq(returns, LAMBDA ret : -ret > var_threshold), LAMBDA losses :
      IF Len(losses) > 0 THEN [num |-> -SumSeq(losses), den |-> Len(losses)] ELSE Zero))

\* StrategyTester::calculate_expected_shortfall: sum_losses / count_losses
calculate_expected_shortfall(returns, confidence) ==
  IF returns = <<>> THEN Zero
  ELSE
    Bind(calculate_var(returns, confidence), LAMBDA var_threshold :
    Bind(SelectSeq(returns, LAMBDA ret : -ret >= var_threshold), LAMBDA losses :
      IF Len(losses) > 0 THEN [num |-> -SumSeq(losses), den |-> Len(losses)] ELSE Zero))

\* the per-bar returns test_strategy derives from the portfolio values
ReturnCount(portfolio_values) ==
  Cardinality({ i \in 2..Len(portfolio_values) : portfolio_values[i - 1] # 0 })

\* the places of the returns: the points whose predecessor is not 0
ReturnPoints(portfolio_values) ==
  SelectSeq([k \in 1..(Len(portfolio_values) - 1) |-> k + 1],
            LAMBDA i : portfolio_values[i - 1] # 0)

\* (portfolio_values[i] - prev) / prev as doubles
ReturnsOf(portfolio_values) ==
  Bind(ReturnPoints(portfolio_values), LAMBDA points :
    [k \in 1..Len(points) |->
       FlRatio(portfolio_values[points[k]] - portfolio_values[points[k] - 1],
               portfolio_values[points[k] - 1])])

\* the same returns in 1/10000, for the order statistics
ReturnsOfBp(portfolio_values) ==
  Bind(ReturnsOf(portfolio_values), LAMBDA returns :
    [k \in 1..Len(returns) |-> FlScaled(returns[k], BpDen)])

\* a fraction as a double
FlFrac(f) == FlRatio(f.num, f.den)

\* StrategyMetrics::calculate_composite_score; the score is kept in 1/1000
calculate_composite_score(metrics) ==
  LET sharpe_score == FlMin(FlDiv(metrics.sharpe_ratio, FlInt(2)), FlInt(1))
      drawdown_score == FlMax(FlZero, FlSub(FlInt(1), FlFrac(metrics.max_drawdown)))
      return_score == FlMin(FlDiv(FlFrac(metrics.total_return), FlLit(1, 2)), FlInt(1))
      trade_score == FlMin(FlDiv(FlInt(metrics.total_trades), FlInt(50)), FlInt(1))
  IN  [metrics EXCEPT !.composite_score =
         FlToPermille(
           FlAdd(FlAdd(FlAdd(FlMul(sharpe_score, FlLit(4, 10)),
                             FlMul(drawdown_score, FlLit(3, 10))),
                       FlMul(return_score, FlLit(2, 10))),
                 FlMul(trade_score, FlLit(1, 10))))]

\* the metrics test_strategy fills in after a simulation
calculate_metrics(metrics, config, portfolio_values, s, data) ==
  LET exits == ExitTrades(s)
      completed_trades == Len(exits)
      winning_trades == Len(WinningExits(s))
      total_wins == SumPnl(WinningExits(s))
      total_losses == -SumPnl(LosingExits(s))
      m1 == IF ReturnCount(portfolio_values) > 0
            THEN [metrics EXCEPT
                    !.total_return =
                       [num |-> portfolio_values[Len(portfolio_values)] - config.initial_capital,
                        den |-> config.initial_capital],
                    !.sharpe_ratio = calculate_sharpe_ratio(ReturnsOf(portfolio_values)),
                    !.max_drawdown = calculate_max_drawdown(portfolio_values),
                    !.var_95 = calculate_var(ReturnsOfBp(portfolio_values),
                                             [num |-> 95, den |-> 100]),
                    !.expected_shortfall =
                       calculate_expected_shortfall(ReturnsOfBp(portfolio_values),
                                                    [num |-> 95, den |-> 100])]
            ELSE metrics
      m2 == [m1 EXCEPT !.total_trades = completed_trades]
      m3 == IF completed_trades > 0
            THEN [m2 EXCEPT
                    !.win_rate = [num |-> winning_trades, den |-> completed_trades],
                    !.avg_trade = [num |-> total_wins - total_losses, den |-> completed_trades],
                    !.profit_factor =
                       IF total_losses > 0 THEN [num |-> total_wins, den |-> total_losses]
                       ELSE IF total_wins > 0 THEN [num |-> 1000, den |-> 1]
                       ELSE Zero]
            ELSE m2
  IN  Bind(m3, LAMBDA m :
      Bind(IF m.max_drawdown.num > 0
           THEN [m EXCEPT !.calmar_ratio =
                   FlDiv(FlFrac(m.total_return), FlFrac(m.max_drawdown))]
           ELSE m, LAMBDA m4 :
      Bind([m4 EXCEPT !.sortino_ratio = calculate_sortino_ratio(ReturnsOf(portfolio_values))],
           LAMBDA m5 :
        [calculate_composite_score(m5) EXCEPT !.market_data = data])))

\* StrategyTester::run_strategy_simulation as one call: the strategy after
\* on_finish and the portfolio values collected
RECURSIVE SimulateBars(_, _, _, _)
SimulateBars(s, data, i, portfolio_values) ==
  IF i > Len(data) THEN [s |-> s, portfolio_values |-> portfolio_values]
  ELSE Bind(on_bar(s, [date |-> data[i].date, close |-> data[i].close]), LAMBDA s1 :
       Bind(Append(portfolio_values, s1.portfolio_value_), LAMBDA pvs :
         SimulateBars(s1, data, i + 1, pvs)))

run_strategy_simulation(strategy, data) ==
  Bind(on_start(strategy), LAMBDA s0 :
  Bind(SimulateBars(s0, data, 1, <<>>), LAMBDA run :
  Bind(on_finish(run.s), LAMBDA s :
    LET pvs == run.portfolio_values
    IN  [s |-> s,
         portfolio_values |-> IF pvs = <<>> \/ pvs[Len(pvs)] # s.portfolio_value_
                              THEN Append(pvs, s.portfolio_value_) ELSE pvs])))

\* StrategyTester::test_strategy as one call: the metrics it returns
test_strategy(config, data) ==
  LET metrics == StrategyMetrics(config)
      cfg == create_strategy(config.strategy_name, config.parameters)
  IN  IF \/ validate_chronological_order(data) # NoException
         \/ validate_data_integrity(data) # NoException
         \/ validate_ohlc_relationships(data) # NoException
      THEN metrics
      ELSE IF cfg = NullStrategy THEN metrics
      ELSE Bind(run_strategy_simulation(Constructed(cfg), data), LAMBDA sim :
             calculate_metrics(metrics, config, sim.portfolio_values, sim.s, data))

NoStrategy == [cfg |-> NullStrategy]

\* a call of test_strategy with its inputs; calls logs the factory and
\* strategy calls it makes, caught the exception its handler caught
TestInit ==
  /\ tester \in { [pc |-> "validate_chronological_order", config |-> c, data |-> d,
                   metrics |-> StrategyMetrics(c), calls |-> <<>>, caught |-> NoException,
                   portfolio_values |-> <<>>] :
                  c \in TestConfigs, d \in SeqsUpTo(TestBars, MaxTestBars) }
  /\ strat = NoStrategy
  /\ phase = "absent"
  /\ obs = NoObs
  /\ db = NoDb
  /\ workers = NoWorkers

\* a validation pass either throws into the handler or falls through
Validate(pass, exception, next) ==
  /\ tester.pc = pass
  /\ tester' = IF exception # NoException
               THEN [tester EXCEPT !.pc = "catch", !.caught = exception]
               ELSE [tester EXCEPT !.pc = next]
  /\ UNCHANGED <<strat, phase, obs, db, workers>>

ValidateChronologicalOrder ==
  Validate("validate_chronological_order", validate_chronological_order(tester.data),
           "validate_data_integrity")

ValidateDataIntegrity ==
  Validate("validate_data_integrity", validate_data_integrity(tester.data),
           "validate_ohlc_relationships")

ValidateOhlcRelationships ==
  Validate("validate_ohlc_relationships", validate_ohlc_relationships(tester.data),
           "create_strategy")

CreateStrategy ==
  /\ tester.pc = "create_strategy"
  /\ LET cfg == create_strategy(tester.config.strategy_name, tester.config.parameters)
     IN  IF cfg = NullStrategy
         THEN /\ tester' = [tester EXCEPT !.pc = "return",
                                          !.calls = Append(@, "create_strategy")]
              /\ UNCHANGED <<strat, phase>>
         ELSE /\ tester' = [tester EXCEPT !.pc = "on_start",
                                          !.calls = Append(@, "create_strategy")]
              /\ strat' = Constructed(cfg)
              /\ phase' = "new"
  /\ UNCHANGED <<obs, db, workers>>

\* run_strategy_simulation, call by call
RunOnStart ==
  /\ tester.pc = "on_start"
  /\ strat' = on_start(strat)
  /\ phase' = "running"
  /\ tester' = [tester EXCEPT !.pc = "on_bar", !.calls = Append(@, "on_start")]
  /\ UNCHANGED <<obs, db, workers>>

RunOnBar ==
  /\ tester.pc = "on_bar"
  /\ Len(tester.portfolio_values) < Len(tester.data)
  /\ LET bar == tester.data[Len(tester.portfolio_values) + 1]
         s == on_bar(strat, [date |-> bar.date, close |-> bar.close])
     IN  /\ strat' = s
         /\ tester' = [tester EXCEPT !.calls = Append(@, "on_bar"),
                                     !.portfolio_values = Append(@, s.portfolio_value_)]
  /\ UNCHANGED <<phase, obs, db, workers>>

RunOnFinish ==
  /\ tester.pc = "on_bar"
  /\ Len(tester.portfolio_values) = Len(tester.data)
  /\ LET s == on_finish(strat)
         pvs == tester.portfolio_values
     IN  /\ strat' = s
         /\ tester' = [tester EXCEPT
                         !.pc = "metrics",
                         !.calls = Append(@, "on_finish"),
                         !.portfolio_values =
                            IF pvs = <<>> \/ pvs[Len(pvs)] # s.portfolio_value_
                            THEN Append(pvs, s.portfolio_value_) ELSE pvs]
  /\ phase' = "finished"
  /\ UNCHANGED <<obs, db, workers>>

ComputeMetrics ==
  /\ tester.pc = "metrics"
  /\ tester' = [tester EXCEPT
                  !.pc = "return",
                  !.metrics = calculate_metrics(tester.metrics, tester.config,
                                                tester.portfolio_values, strat, tester.data)]
  /\ UNCHANGED <<strat, phase, obs, db, workers>>

\* catch (const std::exception&): the message is printed
Catch ==
  /\ tester.pc = "catch"
  /\ tester' = [tester EXCEPT !.pc = "return"]
  /\ UNCHANGED <<strat, phase, obs, db, workers>>

Return ==
  /\ tester.pc = "return"
  /\ tester' = [tester EXCEPT !.pc = "returned"]
  /\ obs' = [op |-> "test_strategy", result |-> tester.metrics]
  /\ UNCHANGED <<strat, phase, db, workers>>

TestNext ==
  \/ ValidateChronologicalOrder
  \/ ValidateDataIntegrity
  \/ ValidateOhlcRelationships
  \/ CreateStrategy
  \/ RunOnStart
  \/ RunOnBar
  \/ RunOnFinish
  \/ ComputeMetrics
  \/ Catch
  \/ Return

TestSpec == TestInit /\ [][TestNext]_vars

-----------------------------------------------------------------------------
(* Properties of test_strategy *)

NonChronological(data) == \E i \in 2..Len(data) : data[i].date <= data[i - 1].date
StrictlyIncreasing(data) == \A i \in 2..Len(data) : data[i].date > data[i - 1].date

\* the calls of a complete simulation over data
FullSimulation(data) ==
  <<"create_strategy", "on_start">> \o [i \in 1..Len(data) |-> "on_bar"] \o <<"on_finish">>

\* test_strategy created the strategy, or found no factory for it, and
\* simulated every bar of the strategy it created
Proceeded ==
  /\ tester.pc \notin {"validate_chronological_order", "validate_data_integrity",
                       "validate_ohlc_relationships", "create_strategy"}
       => tester.calls # <<>> /\ tester.calls[1] = "create_strategy"
  /\ tester.pc = "returned" =>
       IF create_strategy(tester.config.strategy_name, tester.config.parameters) = NullStrategy
       THEN tester.calls = <<"create_strategy">>
       ELSE tester.calls = FullSimulation(tester.data) /\ phase = "finished"

\* C4: a sequence of two or more bars with some date not after the date
\* before it makes test_strategy abort before the simulation: no strategy is
\* created, none of on_start, on_bar, on_finish is called, the exception is
\* caught inside, and the metrics returned are the default ones (0 trades,
\* every performance and risk field 0).
C4_AbortOnDisorder ==
  (tester.pc # "idle" /\ Len(tester.data) >= 2 /\ NonChronological(tester.data)) =>
    /\ tester.calls = <<>>
    /\ strat = NoStrategy
    /\ tester.metrics = StrategyMetrics(tester.config)
    /\ tester.pc \in {"validate_chronological_order", "catch", "return", "returned"}
    /\ tester.pc = "returned" =>
         /\ tester.caught = "Data is NOT in chronological order! Lookahead bias possible."
         /\ obs.result = StrategyMetrics(tester.config)
         /\ obs.result.total_trades = 0

\* test_strategy returned from a sequence out of order
C4_Witness ==
  /\ tester.pc = "returned"
  /\ Len(tester.data) >= 2
  /\ NonChronological(tester.data)
  /\ tester.caught # NoException
  /\ tester.calls = <<>>

\* C5 as stated: for every sequence with strictly increasing dates, the empty
\* one included, no validation pass throws and test_strategy goes on to create
\* and simulate the strategy.
C5_OnlyDisorderAborts ==
  (tester.pc # "idle" /\ StrictlyIncreasing(tester.data)) =>
    /\ tester.caught = NoException
    /\ tester.pc # "catch"
    /\ Proceeded

\* C5 (amended): the same for every non-empty sequence with strictly
\* increasing dates; the empty sequence is rejected by validate_data_integrity
\* and nothing is created or simulated.
C5_DisorderOrEmptyAborts ==
  (tester.pc # "idle" /\ StrictlyIncreasing(tester.data)) =>
    IF tester.data # <<>>
    THEN /\ tester.caught = NoException
         /\ tester.pc # "catch"
         /\ Proceeded
    ELSE /\ tester.calls = <<>>
         /\ strat = NoStrategy
         /\ tester.metrics = StrategyMetrics(tester.config)
         /\ tester.pc = "returned" =>
              tester.caught = "Data integrity validation failed: No data provided"

\* a sequence with non-positive prices, a price above 1e8, high below low and
\* a large gap was validated without a throw and simulated to the end
C5_Witness ==
  /\ tester.pc = "returned"
  /\ StrictlyIncreasing(tester.data)
  /\ IntegrityIssues(tester.data) >= 2
  /\ OhlcViolations(tester.data) >= 1
  /\ GapCount(tester.data) >= 1
  /\ tester.caught = NoException
  /\ tester.calls = FullSimulation(tester.data)

\* the four scores of calculate_composite_score in 1/1000, from the record
SharpeScore(metrics) == Min2(FlScaled(metrics.sharpe_ratio, PermilleDen) \div 2, PermilleDen)

DrawdownScore(metrics) ==
  Max2(0, PermilleDen - FlScaled(FlFrac(metrics.max_drawdown), PermilleDen))

ReturnScore(metrics) ==
  Min2(FlScaled(FlDiv(FlFrac(metrics.total_return), FlLit(1, 2)), PermilleDen), PermilleDen)

TradeScore(metrics) == Min2(20 * metrics.total_trades, PermilleDen)

WeightedScore(metrics) ==
  RoundDiv(4 * SharpeScore(metrics) + 3 * DrawdownScore(metrics)
             + 2 * ReturnScore(metrics) + TradeScore(metrics), 10)

\* test_strategy went through the simulation and computed the score
Scored == tester.pc = "returned" /\ tester.calls = FullSimulation(tester.data)

\* C26 as stated: the composite score of a returned record is 0.4, 0.3, 0.2
\* and 0.1 times the Sharpe, drawdown, return and trade scores, and for every
\* record test_strategy can produce it lies in [0, 1].
C26_ScoreInUnitInterval ==
  tester.pc = "returned" =>
    /\ Scored => Abs(obs.result.composite_score - WeightedScore(obs.result))
                   <= 2 + Abs(WeightedScore(obs.result)) \div 100
    /\ obs.result.composite_score \in 0..PermilleDen

\* what does hold of the score: it is the weighted sum and never above 1; it
\* is at least 0 when neither the Sharpe ratio nor the total return is
\* negative; a record returned without a simulation has score 0.
C26_ScoreAtMostOne ==
  tester.pc = "returned" =>
    /\ Scored => Abs(obs.result.composite_score - WeightedScore(obs.result))
                   <= 2 + Abs(WeightedScore(obs.result)) \div 100
    /\ ~Scored => obs.result.composite_score = 0
    /\ obs.result.composite_score <= PermilleDen
    /\ (obs.result.sharpe_ratio.m >= 0 /\ obs.result.total_return.num >= 0)
         => obs.result.composite_score >= 0

\* a simulated run that lost money was returned with a score below 0
C26_Witness ==
  /\ Scored
  /\ obs.result.total_return.num < 0
  /\ obs.result.sharpe_ratio.m < 0
  /\ obs.result.composite_score < 0

\* the parameters the factory needs for a name it knows
RequiredParameters(strategy_name) ==
  CASE strategy_name = "SMA" -> 3
    [] strategy_name = "RSI" -> 5
    [] strategy_name = "MACD" -> 6

\* a name the factory does not know, or too few parameters for the name
NotCreatable(config) ==
  \/ config.strategy_name \notin {"SMA", "RSI", "MACD"}
  \/ Len(config.parameters) < RequiredParameters(config.strategy_name)

\* C28: for a strategy name other than SMA, RSI or MACD, or a parameter
\* vector shorter than the strategy requires, test_strategy on valid data
\* returns an empty result: name and parameters echoed, every metric and the
\* composite score 0, no strategy created, no simulation call made and no
\* exception raised.
C28_EmptyResultWhenNotCreatable ==
  (tester.pc # "idle" /\ NotCreatable(tester.config) /\ tester.caught = NoException) =>
    /\ strat = NoStrategy
    /\ phase = "absent"
    /\ tester.calls \in { <<>>, <<"create_strategy">> }
    /\ tester.metrics = StrategyMetrics(tester.config)
    /\ tester.pc \notin {"on_start", "on_bar", "on_finish", "metrics", "catch"}
    /\ tester.pc = "returned" =>
         /\ tester.calls = <<"create_strategy">>
         /\ obs.result = StrategyMetrics(tester.config)
         /\ obs.result.strategy_name = tester.config.strategy_name
         /\ obs.result.parameters = tester.config.parameters
         /\ obs.result.total_trades = 0
         /\ obs.result.composite_score = 0
         /\ obs.result.market_data = <<>>

\* test_strategy returned from valid data and a name the factory does not know
C28_Witness ==
  /\ tester.pc = "returned"
  /\ tester.config.strategy_name \notin {"SMA", "RSI", "MACD"}
  /\ Len(tester.data) = MaxTestBars
  /\ tester.caught = NoException
  /\ tester.calls = <<"create_strategy">>

-----------------------------------------------------------------------------
(* StrategyRegistry over SQLite, and SmartStrategyTester workers sharing it. *)
(* Every SQL statement is one atomic step that succeeds; nothing in the code *)
(* groups statements into a transaction or holds a lock across them.         *)

MaxConfigs == 2

Workers == {"w1", "w2"}

\* the bars every worker tests on: SMA(1, 2) enters at 110 and is stopped at 100
RegData ==
  << [date |-> 1, open |-> 100, high |-> 100, low |-> 100, close |-> 100],
     [date |-> 2, open |-> 110, high |-> 110, low |-> 110, close |-> 110],
     [date |-> 3, open |-> 100, high |-> 100, low |-> 100, close |-> 100] >>

\* SMA(1, 2, 0); a MACD configuration of three parameters (1.000000001, 2, 0),
\* which the factory cannot build; SMA(2, 2, 0)
RegConfigs ==
  { [strategy_name |-> "SMA", parameters |-> <<Nanos, 2 * Nanos, 0>>,
     initial_capital |-> InitialCapital * Mills],
    [strategy_name |-> "MACD", parameters |-> <<Nanos + 1, 2 * Nanos, 0>>,
     initial_capital |-> InitialCapital * Mills],
    [strategy_name |-> "SMA", parameters |-> <<2 * Nanos, 2 * Nanos, 0>>,
     initial_capital |-> InitialCapital * Mills] }

\* max_attempts of a call
AttemptLimits == {1, 4}

\* the k low decimal digits of n, zero padded
RECURSIVE Digits(_, _)
Digits(n, k) == IF k = 0 THEN "" ELSE Digits(n \div 10, k - 1) \o ToString(n % 10)

\* the magnitude of a parameter to the nearest 1e-8, in units of 1e-8 (no
\* parameter of the model lies halfway between two such values as a double)
Round8(param) == (Abs(param) + 5) \div 10

\* a double printed with seven decimals
Fixed8_precision7(param) ==
  (IF param < 0 THEN "-" ELSE "")
    \o ToString(((Abs(param) + 50) \div 100) \div Pow(10, 7)) \o "."
    \o Digits(((Abs(param) + 50) \div 100) % Pow(10, 7), 7)

\* a double printed with std::fixed and setprecision(8): the sign of the
\* double, then its rounded magnitude
Fixed8(param) ==
  (IF param < 0 THEN "-" ELSE "")
    \o ToString(Round8(param) \div Pow(10, 8)) \o "."
    \o Digits(Round8(param) % Pow(10, 8), 8)

\* StrategyRegistry::generate_strategy_signature
RECURSIVE generate_strategy_signature(_)
generate_strategy_signature(parameters) ==
  IF parameters = <<>> THEN ""
  ELSE Fixed8(Head(parameters)) \o "|" \o generate_strategy_signature(Tail(parameters))

\* std::round(param * 10.0) / 10.0 printed with the stream's default format:
\* the magnitude in tenths, halves rounded away from zero, under the sign of
\* the double (magnitudes below 1e5, which six significant digits hold)
Bucket(param) ==
  CASE Abs(param) \div Nanos < Pow(10, 5) ->
    LET tenths == (Abs(param) + Nanos \div 20) \div (Nanos \div 10)
    IN  (IF param < 0 THEN "-" ELSE "")
          \o ToString(tenths \div 10)
          \o (IF tenths % 10 = 0 THEN "" ELSE "." \o ToString(tenths % 10))

\* StrategyRegistry::generate_parameter_region_id
RECURSIVE generate_parameter_region_id(_)
generate_parameter_region_id(parameters) ==
  IF parameters = <<>> THEN ""
  ELSE Bucket(Head(parameters)) \o "|" \o generate_parameter_region_id(Tail(parameters))

\* a double printed with the stream's default precision of six significant
\* digits, in units of 1e-9 (zero, and values of exactly one integer digit)
Default6(param) ==
  CASE param = 0 \/ (Abs(param) >= Nanos /\ Abs(param) \div Nanos < 10) ->
         ((param + 5000) \div 10000) * 10000

\* the JSON text save_strategy_result builds for the parameters
ParametersJson(parameters) == [i \in 1..Len(parameters) |-> Default6(parameters[i])]

\* what SQLite reads through the pointer bound for parameters_json: it points
\* into a temporary string destroyed before sqlite3_step, so the text is the
\* JSON or whatever the freed memory holds by then
BoundJson(parameters) ==
  { [intact |-> TRUE, text |-> ParametersJson(parameters)],
    [intact |-> FALSE, text |-> <<>>] }

\* the database after StrategyRegistry::initialize on a fresh file
InitializedDb == [open |-> TRUE, strategies |-> {}, next_id |-> 1, parameter_regions |-> {}]

\* a registry whose database could not be opened
ClosedDb == [open |-> FALSE, strategies |-> {}, next_id |-> 1, parameter_regions |-> {}]

\* is_strategy_tested that never finds a row
is_strategy_tested_never(d, strategy_signature) ==
  FALSE

\* StrategyRegistry::is_strategy_tested
is_strategy_tested(d, strategy_signature) ==
  IF ~d.open THEN FALSE
  ELSE Cardinality({ r \in d.strategies : r.parameters_hash = strategy_signature }) > 0

\* INSERT INTO strategies without the UNIQUE constraint on parameters_hash
InsertKeepingBoth(d, metrics, json) ==
  LET signature == generate_strategy_signature(metrics.parameters)
      row == [ id |-> d.next_id,
               strategy_name |-> metrics.strategy_name,
               parameters_hash |-> signature,
               parameters_json |-> json,
               total_return |-> metrics.total_return,
               max_drawdown |-> metrics.max_drawdown,
               win_rate |-> metrics.win_rate,
               profit_factor |-> metrics.profit_factor,
               total_trades |-> metrics.total_trades ]
  IN  [d EXCEPT !.strategies = @ \cup {row}, !.next_id = @ + 1]

\* INSERT OR REPLACE INTO strategies: a row with the same parameters_hash is
\* deleted and the new row gets a fresh id
InsertOrReplace(d, metrics, json) ==
  LET signature == generate_strategy_signature(metrics.parameters)
      row == [ id |-> d.next_id,
               strategy_name |-> metrics.strategy_name,
               parameters_hash |-> signature,
               parameters_json |-> json,
               total_return |-> metrics.total_return,
               max_drawdown |-> metrics.max_drawdown,
               win_rate |-> metrics.win_rate,
               profit_factor |-> metrics.profit_factor,
               total_trades |-> metrics.total_trades ]
  IN  [d EXCEPT !.strategies = { r \in @ : r.parameters_hash # signature } \cup {row},
                !.next_id = @ + 1]

\* StrategyRegistry::update_exploration_region: the UPDATE statement reports
\* SQLITE_DONE whether or not a row matched, so the INSERT is never run
update_exploration_region(d, region_id, score) ==
  IF ~d.open THEN d
  ELSE [d EXCEPT !.parameter_regions =
          { IF r.region_id = region_id
            THEN [r EXCEPT !.exploration_count = @ + 1,
                           !.best_score = Max2(@, score)]
            ELSE r : r \in @ }]

\* StrategyRegistry::get_underexplored_regions, as the set of ids it returns
get_underexplored_regions(d) ==
  IF ~d.open THEN {}
  ELSE { r.region_id : r \in { q \in d.parameter_regions : q.exploration_count < 5 } }

\* StrategyRegistry::get_exploration_count
get_exploration_count(d, region_id) ==
  IF ~d.open THEN 0
  ELSE IF \E r \in d.parameter_regions : r.region_id = region_id
  THEN (CHOOSE r \in d.parameter_regions : r.region_id = region_id).exploration_count
  ELSE 0

\* the metrics a row carries, as save_strategy_result wrote them
RowOf(metrics) ==
  [ strategy_name |-> metrics.strategy_name,
    parameters_hash |-> generate_strategy_signature(metrics.parameters),
    total_return |-> metrics.total_return,
    max_drawdown |-> metrics.max_drawdown,
    win_rate |-> metrics.win_rate,
    profit_factor |-> metrics.profit_factor,
    total_trades |-> metrics.total_trades ]

StoredMetrics(r) ==
  [ strategy_name |-> r.strategy_name,
    parameters_hash |-> r.parameters_hash,
    total_return |-> r.total_return,
    max_drawdown |-> r.max_drawdown,
    win_rate |-> r.win_rate,
    profit_factor |-> r.profit_factor,
    total_trades |-> r.total_trades ]

\* test_strategy(config, data) of every configuration on the workers' bars
RegResults == [config \in RegConfigs |-> test_strategy(config, RegData)]

\* a call of test_strategies_with_deduplication: its arguments, its locals,
\* and whether a row with the signature was stored when the current
\* configuration was examined
Call(configs, max_attempts) ==
  [ pc |-> "examine", configs |-> configs, max_attempts |-> max_attempts,
    next |-> 1, attempts |-> 0, results |-> <<>>, stored |-> FALSE ]

RegInit ==
  /\ db \in {InitializedDb, ClosedDb}
  /\ workers \in [Workers -> { Call(cs, m) : cs \in SeqsUpTo(RegConfigs, MaxConfigs),
                                             m \in AttemptLimits }]
  /\ obs = [op |-> "registry", saved |-> <<>>]
  /\ strat = NoStrategy
  /\ phase = "absent"
  /\ tester = NoTester

Current(w) == workers[w].configs[workers[w].next]

\* one iteration up to the call of save_strategy_result: the duplicate check
\* (a SELECT), and for a signature not found test_strategy and push_back, which
\* touch nothing the workers share
Examine(w) ==
  /\ workers[w].pc = "examine"
  /\ workers[w].next <= Len(workers[w].configs)
  /\ workers[w].attempts < workers[w].max_attempts
  /\ LET signature == generate_strategy_signature(Current(w).parameters)
         stored == \E r \in db.strategies : r.parameters_hash = signature
     IN  workers' = [workers EXCEPT ![w] =
           IF is_strategy_tested(db, signature)
           THEN [@ EXCEPT !.attempts = @ + 1, !.next = @ + 1, !.stored = stored]
           ELSE [@ EXCEPT !.pc = "save_strategy_result", !.stored = stored,
                          !.results = Append(@, RegResults[Current(w)])]]
  /\ UNCHANGED <<db, obs, strat, phase, tester>>

\* save_strategy_result up to its INSERT OR REPLACE; without a database it
\* returns false at once
SaveInsert(w) ==
  /\ workers[w].pc = "save_strategy_result"
  /\ LET metrics == workers[w].results[Len(workers[w].results)]
     IN  IF ~db.open
         THEN /\ workers' = [workers EXCEPT ![w] =
                   [@ EXCEPT !.pc = "examine", !.attempts = @ + 1, !.next = @ + 1]]
              /\ UNCHANGED db
         ELSE /\ \E json \in BoundJson(metrics.parameters) :
                   db' = InsertOrReplace(db, metrics, json)
              /\ workers' = [workers EXCEPT ![w] = [@ EXCEPT !.pc = "update_exploration_region"]]
  /\ UNCHANGED <<obs, strat, phase, tester>>

\* the rest of save_strategy_result: the region update, then the return
SaveRegion(w) ==
  /\ workers[w].pc = "update_exploration_region"
  /\ LET metrics == workers[w].results[Len(workers[w].results)]
     IN  /\ db' = update_exploration_region(db, generate_parameter_region_id(metrics.parameters),
                                            metrics.composite_score)
         /\ obs' = [obs EXCEPT !.saved = Append(@, [worker |-> w, metrics |-> RowOf(metrics)])]
  /\ workers' = [workers EXCEPT ![w] =
       [@ EXCEPT !.pc = "examine", !.attempts = @ + 1, !.next = @ + 1]]
  /\ UNCHANGED <<strat, phase, tester>>

\* the loop ends: the list is exhausted or max_attempts is reached
ReturnResults(w) ==
  /\ workers[w].pc = "examine"
  /\ \/ workers[w].next > Len(workers[w].configs)
     \/ workers[w].attempts >= workers[w].max_attempts
  /\ workers' = [workers EXCEPT ![w] = [@ EXCEPT !.pc = "returned"]]
  /\ UNCHANGED <<db, obs, strat, phase, tester>>

RegNext ==
  \E w \in Workers :
    \/ Examine(w)
    \/ SaveInsert(w)
    \/ SaveRegion(w)
    \/ ReturnResults(w)

RegSpec == RegInit /\ [][RegNext]_vars

-----------------------------------------------------------------------------
(* Properties of the registry and of deduplication *)

Signatures(results) ==
  { generate_strategy_signature(results[i].parameters) : i \in 1..Len(results) }

\* the saves of a signature that have returned, in the order they returned
SavedFor(signature) ==
  SelectSeq(obs.saved, LAMBDA e : e.metrics.parameters_hash = signature)

OneRowPerSignature ==
  \A r1, r2 \in db.strategies : r1.parameters_hash = r2.parameters_hash => r1 = r2

\* C8: after any interleaving of save_strategy_result calls by any number of
\* writers the table holds at most one row per signature, and that row
\* carries the metrics of the save of that signature that completed last.
C8_LastSaveWins ==
  (obs.op = "registry" /\ db.open /\ \A w \in Workers : workers[w].pc = "returned") =>
    /\ OneRowPerSignature
    /\ \A r \in db.strategies :
         LET saves == SavedFor(r.parameters_hash)
         IN  saves # <<>> /\ StoredMetrics(r) = saves[Len(saves)].metrics

\* C9: with an initialised registry a call never simulates a configuration
\* whose signature was stored when it was examined, every configuration it
\* tested has a row before it examines the next one, and the results it
\* returns have pairwise distinct signatures.
C9_Deduplication ==
  (obs.op = "registry" /\ db.open) =>
    \A w \in Workers :
      /\ workers[w].pc \in {"save_strategy_result", "update_exploration_region"}
           => ~workers[w].stored
      /\ workers[w].pc \in {"examine", "returned"} =>
           \A i \in 1..(workers[w].next - 1) :
             is_strategy_tested(db, generate_strategy_signature(workers[w].configs[i].parameters))
      /\ Cardinality(Signatures(workers[w].results)) = Len(workers[w].results)
      /\ Len(workers[w].results) <= workers[w].attempts + 1

\* a call returned having skipped a configuration whose signature it, or the
\* other worker, had saved before
C9_Witness ==
  /\ obs.op = "registry"
  /\ db.open
  /\ \E w \in Workers :
       /\ workers[w].pc = "returned"
       /\ workers[w].next = 3
       /\ workers[w].stored
       /\ Len(workers[w].results) = 1
       /\ generate_strategy_signature(workers[w].configs[1].parameters)
            = generate_strategy_signature(workers[w].configs[2].parameters)

\* C10: the duplicate check and the save act atomically across workers: no
\* two workers both pass the check for one signature and both simulate and
\* save it.
C10_NoDoubleTest ==
  (obs.op = "registry" /\ db.open) =>
    \A i, j \in 1..Len(obs.saved) :
      (obs.saved[i].metrics.parameters_hash = obs.saved[j].metrics.parameters_hash
         /\ i # j)
        => obs.saved[i].worker = obs.saved[j].worker

-----------------------------------------------------------------------------
(* StrategyRegistry::save_strategy_result called by one client, one call     *)
(* after another, on a registry that holds no rows at the start.             *)

MaxSaves == 3

\* two vectors of one signature, a third of the same region, a fourth of
\* another region
SaveConfigs ==
  { [strategy_name |-> "SMA", parameters |-> <<Nanos, 2 * Nanos, 0>>],
    [strategy_name |-> "SMA", parameters |-> <<Nanos + 1, 2 * Nanos, 0>>],
    [strategy_name |-> "SMA", parameters |-> <<Nanos + 40000000, 2 * Nanos, 0>>],
    [strategy_name |-> "SMA", parameters |-> <<2 * Nanos, 2 * Nanos, 0>>] }

\* composite scores, in 1/1000
SaveScores == {200, 700}

\* save_strategy_result that stores only metrics of a test that ran
save_strategy_result_completed(d, metrics, json) ==
  IF ~d.open \/ metrics.market_data = <<>> THEN [db |-> d, success |-> FALSE]
  ELSE Bind(InsertOrReplace(d, metrics, json), LAMBDA d1 :
         [db |-> update_exploration_region(d1, generate_parameter_region_id(metrics.parameters),
                                           metrics.composite_score),
          success |-> TRUE])

\* StrategyRegistry::save_strategy_result as one call: the database after it
\* and the value it returns
save_strategy_result(d, metrics, json) ==
  IF ~d.open THEN [db |-> d, success |-> FALSE]
  ELSE Bind(InsertOrReplace(d, metrics, json), LAMBDA d1 :
         [db |-> update_exploration_region(d1, generate_parameter_region_id(metrics.parameters),
                                           metrics.composite_score),
          success |-> TRUE])

SaveInit ==
  /\ db \in {InitializedDb, ClosedDb}
  /\ obs = [op |-> "save", log |-> <<>>]
  /\ strat = NoStrategy
  /\ phase = "absent"
  /\ tester = NoTester
  /\ workers = NoWorkers

SaveStrategyResult ==
  /\ obs.op = "save"
  /\ Len(obs.log) < MaxSaves
  /\ \E config \in SaveConfigs, score \in SaveScores :
       LET metrics == [StrategyMetrics(config) EXCEPT !.composite_score = score]
       IN  \E json \in BoundJson(metrics.parameters) :
             LET call == save_strategy_result(db, metrics, json)
             IN  /\ db' = call.db
                 /\ obs' = [obs EXCEPT !.log = Append(@,
                              [ metrics |-> metrics,
                                region_id |-> generate_parameter_region_id(metrics.parameters),
                                success |-> call.success ])]
  /\ UNCHANGED <<strat, phase, tester, workers>>

SaveNext == SaveStrategyResult

SaveSpec == SaveInit /\ [][SaveNext]_vars

\* the calls so far that returned true for a vector of the region
RegionSaves(region_id) ==
  SelectSeq(obs.log, LAMBDA e : e.success /\ e.region_id = region_id)

RECURSIVE BestScore(_)
BestScore(saves) ==
  IF Len(saves) = 1 THEN saves[1].metrics.composite_score
  ELSE Max2(saves[1].metrics.composite_score, BestScore(Tail(saves)))

\* C11: after every successful save the region of the saved vector has a row
\* whose exploration_count is the number of successful saves into the region
\* and whose best_score is the largest score saved into it, and the region is
\* among the underexplored ones while that number is below 5.
C11_RegionCounted ==
  (obs.op = "save" /\ db.open) =>
    \A i \in 1..Len(obs.log) :
      LET region_id == obs.log[i].region_id
          saves == RegionSaves(region_id)
      IN  /\ get_exploration_count(db, region_id) = Len(saves)
          /\ \E r \in db.parameter_regions :
               r.region_id = region_id /\ r.best_score = BestScore(saves)
          /\ Len(saves) < 5 => region_id \in get_underexplored_regions(db)

\* C12: after two saves of one parameter vector on a fresh registry the
\* strategies table holds exactly one row and the exploration_count of the
\* vector's region is 1.
C12_ReplaceCountsOnce ==
  (/\ obs.op = "save"
   /\ db.open
   /\ Len(obs.log) = 2
   /\ obs.log[1].metrics.parameters = obs.log[2].metrics.parameters) =>
    /\ Cardinality(db.strategies) = 1
    /\ get_exploration_count(db, obs.log[1].region_id) = 1

-----------------------------------------------------------------------------
(* StrategyRegistry::generate_strategy_signature applied to two vectors *)

MaxParams == 2

\* parameters in units of 1e-9: zero, a negative and a positive value that
\* round to zero, 1, two values next to 1 that round to 1.00000000 and to
\* 1.00000001, 0.0005 and 0.0006
SigValues == {0, -1, 4, Nanos, Nanos + 4, Nanos + 14, 500000, 600000}

SigInit ==
  /\ \E p, q \in SeqsUpTo(SigValues, MaxParams) :
       obs = [op |-> "signature", pc |-> "call", first |-> p, second |-> q,
              signature |-> <<>>]
  /\ strat = NoStrategy
  /\ phase = "absent"
  /\ tester = NoTester
  /\ db = NoDb
  /\ workers = NoWorkers

\* the first vector is signed twice, the second once
GenerateStrategySignature ==
  /\ obs.op = "signature"
  /\ obs.pc = "call"
  /\ obs' = [obs EXCEPT !.pc = "returned",
                        !.signature = << generate_strategy_signature(obs.first),
                                         generate_strategy_signature(obs.first),
                                         generate_strategy_signature(obs.second) >>]
  /\ UNCHANGED <<strat, phase, tester, db, workers>>

SigNext == GenerateStrategySignature

SigSpec == SigInit /\ [][SigNext]_vars

\* a parameter rounded to 8 decimals, as a number in units of 1e-8
Rounded8(param) == Sign(param) * Round8(param)

\* C13 as stated: two calls on one vector return the same string, and two
\* vectors get the same string exactly when they have the same length and
\* their parameters are pairwise equal after rounding to 8 decimals.
C13_SignatureByRounding ==
  (obs.op = "signature" /\ obs.pc = "returned") =>
    /\ obs.signature[1] = obs.signature[2]
    /\ obs.signature[1] = obs.signature[3]
         <=> /\ Len(obs.first) = Len(obs.second)
             /\ \A i \in 1..Len(obs.first) :
                  Rounded8(obs.first[i]) = Rounded8(obs.second[i])

\* C13 (amended): the same, where parameters that round to zero must also
\* agree in sign: a negative parameter that rounds to zero is written
\* -0.00000000 and zero is written 0.00000000.
C13_SignatureByText ==
  (obs.op = "signature" /\ obs.pc = "returned") =>
    /\ obs.signature[1] = obs.signature[2]
    /\ obs.signature[1] = obs.signature[3]
         <=> /\ Len(obs.first) = Len(obs.second)
             /\ \A i \in 1..Len(obs.first) :
                  /\ Rounded8(obs.first[i]) = Rounded8(obs.second[i])
                  /\ Rounded8(obs.first[i]) = 0 =>
                       (obs.first[i] < 0 <=> obs.second[i] < 0)

\* two different vectors of two parameters got one signature, the text of
\* 1 and 0.0005 at 8 decimals
C13_Witness ==
  /\ obs.op = "signature"
  /\ obs.pc = "returned"
  /\ obs.first # obs.second
  /\ obs.signature[1] = obs.signature[3]
  /\ obs.signature[1] = "1.00000000|0.00050000|"

-----------------------------------------------------------------------------
(* calculate_sharpe_ratio and calculate_sortino_ratio applied to a series   *)
(* of returns                                                               *)

\* the longest series of returns handed to the ratio functions
MaxReturns == 3

\* the returns a series can hold: 0, +/-10 %, 19 %, 1 %, -3 %
RatioReturns ==
  { FlZero, FlLit(1, 10), FlLit(-1, 10), FlLit(19, 100), FlLit(1, 100), FlLit(-3, 100) }

RatioSeries == UNION { [1..n -> RatioReturns] : n \in 0..MaxReturns }

RatioInit ==
  /\ tester \in { [pc |-> "returns", returns |-> q] : q \in RatioSeries }
  /\ obs = [op |-> "ratio", fn |-> "none", result |-> FlZero]
  /\ strat = NoStrategy
  /\ phase = "absent"
  /\ db = NoDb
  /\ workers = NoWorkers

CalculateSharpeRatio ==
  /\ tester.pc = "returns"
  /\ obs.op = "ratio"
  /\ obs.fn = "none"
  /\ obs' = [obs EXCEPT !.fn = "sharpe", !.result = calculate_sharpe_ratio(tester.returns)]
  /\ UNCHANGED <<strat, phase, tester, db, workers>>

CalculateSortinoRatio ==
  /\ tester.pc = "returns"
  /\ obs.op = "ratio"
  /\ obs.fn = "none"
  /\ obs' = [obs EXCEPT !.fn = "sortino", !.result = calculate_sortino_ratio(tester.returns)]
  /\ UNCHANGED <<strat, phase, tester, db, workers>>

RatioNext == CalculateSharpeRatio \/ CalculateSortinoRatio

RatioSpec == RatioInit /\ [][RatioNext]_vars

\* C23: calculate_sharpe_ratio and calculate_sortino_ratio return 0 for fewer
\* than 2 returns, Sharpe returns 0 when all returns are equal, and Sortino
\* returns 0 when no return is negative.
C23_DegenerateZero ==
  (obs.op = "ratio" /\ obs.fn # "none") =>
    LET returns == tester.returns
    IN  /\ Len(returns) < 2 => obs.result = FlZero
        /\ (obs.fn = "sharpe" /\ \A i, j \in 1..Len(returns) : returns[i] = returns[j])
              => obs.result = FlZero
        /\ (obs.fn = "sortino" /\ \A i \in 1..Len(returns) : returns[i].m >= 0)
              => obs.result = FlZero

\* C23 without the equal-but-not-zero series: Sharpe returns 0 when all
\* returns are 0
C23_ZeroSeries ==
  (obs.op = "ratio" /\ obs.fn # "none") =>
    LET returns == tester.returns
    IN  /\ Len(returns) < 2 => obs.result = FlZero
        /\ (obs.fn = "sharpe" /\ \A i \in 1..Len(returns) : returns[i] = FlZero)
              => obs.result = FlZero
        /\ (obs.fn = "sortino" /\ \A i \in 1..Len(returns) : returns[i].m >= 0)
              => obs.result = FlZero

-----------------------------------------------------------------------------
(* calculate_max_drawdown applied to an equity curve of positive values *)

\* the longest equity curve
MaxCurve == 4

\* the values a point of the curve can take
CurveValues == {1, 50, 80, 100, 120}

CurveInit ==
  /\ tester \in { [pc |-> "curve", portfolio_values |-> E] :
                   E \in SeqsUpTo(CurveValues, MaxCurve) }
  /\ obs = [op |-> "max_drawdown", pc |-> "call", result |-> Zero]
  /\ strat = NoStrategy
  /\ phase = "absent"
  /\ db = NoDb
  /\ workers = NoWorkers

CalculateMaxDrawdown ==
  /\ tester.pc = "curve"
  /\ obs.op = "max_drawdown"
  /\ obs.pc = "call"
  /\ obs' = [obs EXCEPT !.pc = "returned",
                        !.result = calculate_max_drawdown(tester.portfolio_values)]
  /\ UNCHANGED <<strat, phase, tester, db, workers>>

CurveNext == CalculateMaxDrawdown

CurveSpec == CurveInit /\ [][CurveNext]_vars

\* max(E[0..i]), with the model's indices from 1
PeakTo(E, i) == CHOOSE p \in { E[j] : j \in 1..i } : \A j \in 1..i : E[j] <= p

-----------------------------------------------------------------------------
(* calculate_var and calculate_expected_shortfall applied to a series of     *)
(* returns (in 1/10000) at a confidence level                                *)

\* the longest series built from TailReturns
MaxTail == 3

\* the length of the generated series
LongTail == 21

TailReturns == {-500, -100, 0, 300}

\* generated series long enough for the 5 % quantile to leave index 0
LongSeries ==
  { [i \in 1..n |-> ((i * k) % 11) * 100 - 500] : n \in {LongTail - 1, LongTail}, k \in {3, 7} }

\* 0.95 is the level test_strategy uses (and the default argument)
Confidences == { [num |-> 95, den |-> 100], [num |-> 1, den |-> 2], [num |-> 1, den |-> 4] }

TailInit ==
  /\ tester \in { [pc |-> "returns", returns |-> q, confidence |-> c] :
                   q \in SeqsUpTo(TailReturns, MaxTail) \cup LongSeries, c \in Confidences }
  /\ obs = [op |-> "tail", fn |-> "none", var |-> 0, es |-> Zero]
  /\ strat = NoStrategy
  /\ phase = "absent"
  /\ db = NoDb
  /\ workers = NoWorkers

CalculateVar ==
  /\ tester.pc = "returns"
  /\ obs.op = "tail"
  /\ obs.fn = "none"
  /\ obs' = [obs EXCEPT !.fn = "var",
                        !.var = calculate_var(tester.returns, tester.confidence)]
  /\ UNCHANGED <<strat, phase, tester, db, workers>>

CalculateExpectedShortfall ==
  /\ tester.pc = "returns"
  /\ obs.op = "tail"
  /\ obs.fn = "none"
  /\ obs' = [obs EXCEPT !.fn = "es",
                        !.es = calculate_expected_shortfall(tester.returns, tester.confidence)]
  /\ UNCHANGED <<strat, phase, tester, db, workers>>

TailNext == CalculateVar \/ CalculateExpectedShortfall

TailSpec == TailInit /\ [][TailNext]_vars

\* floor((1 - c) x n), capped at n - 1
QuantileIndex(n, c) ==
  Min2(n - 1, ((c.den - c.num) * n) \div c.den)

\* v is the ascending-sorted element of returns at index k (from 0)
IsSortedAt(returns, k, v) ==
  /\ Cardinality({ i \in 1..Len(returns) : returns[i] < v }) <= k
  /\ Cardinality({ i \in 1..Len(returns) : returns[i] <= v }) > k

\* the indices of the returns r with -r >= threshold
LossesFrom(returns, threshold) == { i \in 1..Len(returns) : -returns[i] >= threshold }

RECURSIVE SumAt(_, _)
SumAt(returns, I) ==
  IF I = {} THEN 0
  ELSE LET i == CHOOSE j \in I : TRUE IN returns[i] + SumAt(returns, I \ {i})

-----------------------------------------------------------------------------
(* StrategyManagement::export_strategies_to_csv and                          *)
(* import_strategies_from_csv. A double is held in units of 1e-7; a line of  *)
(* the file is a sequence of items: a character, [char |-> c], or the text   *)
(* of one number, [number |-> n], holding the value the text denotes.        *)

\* the longest list exported
MaxList == 2

\* the significant digits operator<< writes of a double (the stream's
\* precision is never changed)
StreamPrecision == 6

RECURSIVE DigitCount(_)
\* the number of decimal digits of n > 0
DigitCount(n) == IF n < 10 THEN 1 ELSE 1 + DigitCount(n \div 10)

\* v rounded to StreamPrecision significant digits, as printed
RoundSignificant(v) ==
  IF v = 0 \/ DigitCount(Abs(v)) <= StreamPrecision THEN v
  ELSE LET unit == Pow(10, DigitCount(Abs(v)) - StreamPrecision)
       IN  RoundDiv(v, unit) * unit

Comma == [char |-> ","]

Semicolon == [char |-> ";"]

\* file << std::string
WriteString(s) == [k \in 1..Len(s) |-> [char |-> s[k]]]

\* the std::string a token of characters is
ReadString(token) == [k \in 1..Len(token) |-> token[k].char]

\* file << double
WriteDouble(v) == <<[number |-> RoundSignificant(v)]>>

\* file << int
WriteInt(n) == <<[number |-> n]>>

RECURSIVE JoinParameters(_)
\* the parameters with ";" between them
JoinParameters(parameters) ==
  IF parameters = <<>> THEN <<>>
  ELSE IF Len(parameters) = 1 THEN WriteDouble(parameters[1])
  ELSE WriteDouble(parameters[1]) \o <<Semicolon>> \o JoinParameters(Tail(parameters))

\* one data line of export_strategies_to_csv, without its newline
ExportLine(strategy) ==
  WriteString(strategy.strategy_name) \o <<Comma>>
    \o WriteDouble(strategy.total_return) \o <<Comma>>
    \o WriteDouble(strategy.sharpe_ratio) \o <<Comma>>
    \o WriteDouble(strategy.max_drawdown) \o <<Comma>>
    \o WriteDouble(strategy.win_rate) \o <<Comma>>
    \o WriteDouble(strategy.profit_factor) \o <<Comma>>
    \o WriteInt(strategy.total_trades) \o <<Comma>>
    \o WriteDouble(strategy.composite_score) \o <<Comma>>
    \o JoinParameters(strategy.parameters)

\* the file export_strategies_to_csv writes: the header, then one line each
export_strategies_to_csv(strategies) ==
  <<WriteString(<<"header">>)>> \o [i \in 1..Len(strategies) |-> ExportLine(strategies[i])]

RECURSIVE GetLines(_, _, _)
\* the tokens successive std::getline(stream, token, delim) calls extract
\* from text, token being the one under way; no token is extracted from an
\* exhausted stream
GetLines(text, delim, token) ==
  IF text = <<>> THEN (IF token = <<>> THEN <<>> ELSE <<token>>)
  ELSE IF text[1] = delim THEN <<token>> \o GetLines(Tail(text), delim, <<>>)
  ELSE GetLines(Tail(text), delim, Append(token, text[1]))

\* std::stod and std::stoi: the number at the front of the token, or
\* std::invalid_argument
ParseNumber(token) ==
  IF token # <<>> /\ "number" \in DOMAIN token[1] THEN [value |-> token[1].number]
  ELSE [exception |-> "invalid_argument"]

\* the StrategyMetrics import_strategies_from_csv starts each line with
DefaultCsvMetrics ==
  [ strategy_name |-> <<>>, total_return |-> 0, sharpe_ratio |-> 0, max_drawdown |-> 0,
    win_rate |-> 0, profit_factor |-> 0, total_trades |-> 0, sortino_ratio |-> 0,
    composite_score |-> 0, parameters |-> <<>> ]

\* the text of the last field: everything from the ninth token on, since
\* the last getline of a line reads up to the next comma only
ParametersOf(tokens) ==
  IF Len(tokens) < 9 THEN <<>>
  ELSE [k \in 1..Len(GetLines(tokens[9], Semicolon, <<>>)) |->
          ParseNumber(GetLines(tokens[9], Semicolon, <<>>)[k])]

\* one line of import_strategies_from_csv: the record, or the exception of
\* the first field that does not parse
ImportLine(line) ==
  LET tokens == GetLines(line, Comma, <<>>)
      fields == [k \in 2..8 |-> IF k <= Len(tokens) THEN ParseNumber(tokens[k])
                                 ELSE [value |-> 0]]
      parameters == ParametersOf(tokens)
      failed == \/ \E k \in 2..8 : "exception" \in DOMAIN fields[k]
                \/ \E k \in 1..Len(parameters) : "exception" \in DOMAIN parameters[k]
  IN  IF failed THEN [exception |-> "invalid_argument"]
      ELSE [ DefaultCsvMetrics EXCEPT
               !.strategy_name = IF tokens = <<>> THEN <<>> ELSE ReadString(tokens[1]),
               !.total_return = fields[2].value,
               !.sharpe_ratio = fields[3].value,
               !.max_drawdown = fields[4].value,
               !.win_rate = fields[5].value,
               !.profit_factor = fields[6].value,
               !.total_trades = fields[7].value,
               !.composite_score = fields[8].value,
               !.parameters = [k \in 1..Len(parameters) |-> parameters[k].value] ]

\* import_strategies_from_csv on a file that opens: the records of the
\* lines after the header, or the exception that leaves the function
import_strategies_from_csv(file) ==
  LET records == [i \in 1..(Len(file) - 1) |-> ImportLine(file[i + 1])]
  IN  IF \E i \in 1..Len(records) : "exception" \in DOMAIN records[i]
      THEN [exception |-> "invalid_argument", strategies |-> <<>>]
      ELSE [exception |-> NoException, strategies |-> records]

\* doubles in 1e-7: 0, 0.5, 0.1234567 and -1.8181818
CsvDoubles == {0, 5000000, 1234567, -18181818}

CsvNames == { <<"S", "M", "A">>, <<"A", ",", "B">> }

CsvParameters == { <<>>, <<10000000, 20000000, 0>>, <<1234567, 20000000>> }

\* the records exported
CsvRecords ==
  { [ strategy_name |-> name, total_return |-> v, sharpe_ratio |-> -v, max_drawdown |-> Abs(v),
      win_rate |-> 5000000, profit_factor |-> 2 * v,
      total_trades |-> IF v = 0 THEN 0 ELSE 12, sortino_ratio |-> v,
      composite_score |-> v, parameters |-> parameters ] :
    name \in CsvNames, v \in CsvDoubles, parameters \in CsvParameters }

CsvInit ==
  /\ tester \in { [pc |-> "export", strategies |-> L] : L \in SeqsUpTo(CsvRecords, MaxList) }
  /\ obs = [op |-> "csv", file |-> <<>>, exception |-> NoException, strategies |-> <<>>]
  /\ strat = NoStrategy
  /\ phase = "absent"
  /\ db = NoDb
  /\ workers = NoWorkers

ExportStrategiesToCsv ==
  /\ tester.pc = "export"
  /\ obs.op = "csv"
  /\ tester' = [tester EXCEPT !.pc = "import"]
  /\ obs' = [obs EXCEPT !.file = export_strategies_to_csv(tester.strategies)]
  /\ UNCHANGED <<strat, phase, db, workers>>

ImportStrategiesFromCsv ==
  /\ tester.pc = "import"
  /\ obs.op = "csv"
  /\ tester' = [tester EXCEPT !.pc = "imported"]
  /\ obs' = [obs EXCEPT
               !.exception = import_strategies_from_csv(obs.file).exception,
               !.strategies = import_strategies_from_csv(obs.file).strategies]
  /\ UNCHANGED <<strat, phase, db, workers>>

CsvNext == ExportStrategiesToCsv \/ ImportStrategiesFromCsv

CsvSpec == CsvInit /\ [][CsvNext]_vars

\* C27: importing the file written by export_strategies_to_csv(L) returns a
\* list of the same length and order whose records have the values of the
\* original records: every numeric metric and the whole parameter vector.
C27_CsvRoundTrip ==
  tester.pc = "imported" =>
    /\ obs.exception = NoException
    /\ obs.strategies = tester.strategies

\* what does hold: a list whose names hold no comma and whose doubles have
\* at most StreamPrecision significant digits comes back with the exported
\* columns and the parameters unchanged, in the same order
C27_ShortValuesRoundTrip ==
  (/\ tester.pc = "imported"
   /\ \A i \in 1..Len(tester.strategies) :
        /\ "," \notin { tester.strategies[i].strategy_name[k] :
                           k \in 1..Len(tester.strategies[i].strategy_name) }
        /\ tester.strategies[i].total_return = RoundSignificant(tester.strategies[i].total_return)
        /\ \A k \in 1..Len(tester.strategies[i].parameters) :
             tester.strategies[i].parameters[k]
               = RoundSignificant(tester.strategies[i].parameters[k]))
  => /\ obs.exception = NoException
     /\ Len(obs.strategies) = Len(tester.strategies)
     /\ \A i \in 1..Len(tester.strategies) :
          obs.strategies[i] = [tester.strategies[i] EXCEPT !.sortino_ratio = 0]

-----------------------------------------------------------------------------
(* SmartStrategyTester over a registry file that may not open or initialise. *)

\* what sqlite3_open and the CREATE TABLE statements of initialize meet: a
\* path that cannot be opened, a registry file of an earlier session on which
\* the CREATE TABLE statements fail (locked by another connection while
\* initialize runs), or a fresh file
RegistryFiles == {"unopenable", "locked", "fresh"}

\* the rows of the earlier session: SMA(1, 2, 0) was tested and saved
EarlierSession ==
  InsertOrReplace(InitializedDb,
                  test_strategy([strategy_name |-> "SMA", parameters |-> <<Nanos, 2 * Nanos, 0>>,
                                 initial_capital |-> InitialCapital * Mills], RegData),
                  ParametersJson(<<Nanos, 2 * Nanos, 0>>))

\* initialize that cannot use the file of the earlier session either
initialize_all_or_nothing(file) ==
  CASE file = "fresh" -> [db |-> InitializedDb, success |-> TRUE]
    [] file \in {"unopenable", "locked"} -> [db |-> ClosedDb, success |-> FALSE]

\* StrategyRegistry::initialize: the handle it leaves and what it returns; a
\* handle whose open failed makes every later sqlite3_prepare_v2 fail, as a
\* null handle does
initialize(file) ==
  CASE file = "unopenable" -> [db |-> ClosedDb, success |-> FALSE]
    [] file = "locked" -> [db |-> EarlierSession, success |-> FALSE]
    [] file = "fresh" -> [db |-> InitializedDb, success |-> TRUE]

\* before the constructor: no handle; one tester is about to be built and
\* called, the other has returned
DegradedInit ==
  /\ db = ClosedDb
  /\ \E cs \in SeqsUpTo(RegConfigs, MaxConfigs), m \in AttemptLimits :
       workers = [w \in Workers |->
                    IF w = "w1" THEN [Call(cs, m) EXCEPT !.pc = "construct"]
                    ELSE [Call(<<>>, m) EXCEPT !.pc = "returned"]]
  /\ obs \in { [op |-> "registry", saved |-> <<>>, file |-> f, warning |-> FALSE] :
                f \in RegistryFiles }
  /\ strat = NoStrategy
  /\ phase = "absent"
  /\ tester = NoTester

\* SmartStrategyTester::SmartStrategyTester
Construct(w) ==
  /\ workers[w].pc = "construct"
  /\ db' = initialize(obs.file).db
  /\ obs' = [obs EXCEPT !.warning = ~initialize(obs.file).success]
  /\ workers' = [workers EXCEPT ![w] = [@ EXCEPT !.pc = "examine"]]
  /\ UNCHANGED <<strat, phase, tester>>

DegradedNext ==
  \/ \E w \in Workers : Construct(w)
  \/ RegNext

DegradedSpec == DegradedInit /\ [][DegradedNext]_vars

\* the first n of q
FirstOf(q, n) == SubSeq(q, 1, Min2(Len(q), n))

\* the tester warned and works without deduplication and persistence
NonDeduplicated(w) ==
  /\ obs.warning
  /\ \A c \in RegConfigs : ~is_strategy_tested(db, generate_strategy_signature(c.parameters))
  /\ \A c \in RegConfigs : \A json \in BoundJson(c.parameters) :
       /\ ~save_strategy_result(db, StrategyMetrics(c), json).success
       /\ save_strategy_result(db, StrategyMetrics(c), json).db = db
  /\ obs.saved = <<>>
  /\ workers[w].pc = "returned" =>
       workers[w].results =
         [i \in 1..Min2(Len(workers[w].configs), workers[w].max_attempts) |->
            test_strategy(workers[w].configs[i], RegData)]

-----------------------------------------------------------------------------
(* The exploration loops of SmartStrategyTester: discover_strategies,        *)
(* generate_unique_config and test_strategies_with_deduplication.  The       *)
(* window parameters of a generated vector are held in tenths, its fee in    *)
(* units of 1e-9; the metrics of a tested vector are carried as the          *)
(* configuration they belong to, since the loops do not read them.           *)

\* the largest target_count of a call
MaxTarget == 2

\* the largest max_total_attempts of a call
MaxTotalAttempts == 3

\* const int max_attempts = 100 of generate_unique_config
MaxDraws == 100

\* what rand() can make of the ranges {5, 50}, {20, 200}, {0.0001, 0.001}:
\* both ends of the window ranges, a window with a fraction, and two fees
\* that agree in their first eight decimals
RandomParameters ==
  { <<short_window, 200, fee>> : short_window \in {50, 57, 500},
                                  fee \in {100000, 100004, 1000000} }

\* "Ensure short < long" of discover_strategies
EnsureShortBelowLong(parameters) ==
  Bind(Max2(2, parameters[1] \div 10), LAMBDA short_win :
  Bind(Max2(short_win + 5, parameters[2] \div 10), LAMBDA long_win :
    <<10 * short_win, 10 * long_win, parameters[3]>>))

\* a window in tenths printed with std::fixed and setprecision(8)
FixedTenths(window) == ToString(window \div 10) \o "." \o ToString(window % 10) \o "0000000"

\* generate_strategy_signature of a generated vector
SignatureOf(parameters) ==
  FixedTenths(parameters[1]) \o "|" \o FixedTenths(parameters[2]) \o "|"
    \o Fixed8(parameters[3]) \o "|"

\* save_strategy_result for the metrics of a generated vector: the row
\* replaces the one with its signature; parameter_regions has no row to update
SaveGenerated(d, parameters) ==
  IF ~d.open THEN d
  ELSE update_exploration_region(
         [d EXCEPT !.strategies =
                     { r \in @ : r.parameters_hash # SignatureOf(parameters) }
                       \cup { [id |-> d.next_id, strategy_name |-> "SMA",
                               parameters_hash |-> SignatureOf(parameters)] },
                   !.next_id = @ + 1],
         SignatureOf(parameters), 0)

\* a registry that holds every vector the generator can produce
RECURSIVE SaveAll(_, _)
SaveAll(d, vectors) ==
  IF vectors = {} THEN d
  ELSE LET v == CHOOSE x \in vectors : TRUE
       IN  SaveAll(SaveGenerated(d, v), vectors \ {v})

ExhaustedDb ==
  SaveAll(InitializedDb, RandomParameters \cup { EnsureShortBelowLong(v) : v \in RandomParameters })

\* one iteration of discover_strategies that leaves attempts alone when the
\* vector is a duplicate
discover_iteration_free_skip(call, d, random) ==
  Bind(EnsureShortBelowLong(random), LAMBDA parameters :
    IF is_strategy_tested(d, SignatureOf(parameters))
    THEN [call |-> call, db |-> d]
    ELSE [call |-> [call EXCEPT !.results = Append(@, parameters), !.attempts = @ + 1],
          db |-> SaveGenerated(d, parameters)])

\* one iteration of the while loop of discover_strategies, random being the
\* vector generate_exploration_parameters returned
discover_iteration(call, d, random) ==
  Bind(EnsureShortBelowLong(random), LAMBDA parameters :
    IF is_strategy_tested(d, SignatureOf(parameters))
    THEN [call |-> [call EXCEPT !.attempts = @ + 1], db |-> d]
    ELSE [call |-> [call EXCEPT !.results = Append(@, parameters), !.attempts = @ + 1],
          db |-> SaveGenerated(d, parameters)])

\* a call of discover_strategies or generate_unique_config; iterations and
\* draws count the passes through the loop body
DiscoverCall(target_count, max_total_attempts) ==
  [ pc |-> "discover_strategies", target_count |-> target_count,
    max_total_attempts |-> max_total_attempts, attempts |-> 0, results |-> <<>>,
    iterations |-> 0 ]

UniqueConfigCall ==
  [ pc |-> "generate_unique_config", attempts |-> 0, parameters |-> <<>>, draws |-> 0 ]

\* a finished tester, for the calls that are not test_strategies_with_deduplication
FinishedWorkers == [w \in Workers |-> [Call(<<>>, 1) EXCEPT !.pc = "returned"]]

LoopInit ==
  /\ db \in {InitializedDb, ClosedDb, ExhaustedDb}
  /\ \/ /\ tester \in { DiscoverCall(n, m) : n \in 0..MaxTarget, m \in 0..MaxTotalAttempts }
        /\ workers = FinishedWorkers
     \/ /\ tester = UniqueConfigCall
        /\ workers = FinishedWorkers
     \/ /\ tester = NoTester
        /\ db # ExhaustedDb
        /\ \E cs \in SeqsUpTo(RegConfigs, MaxConfigs), m \in AttemptLimits :
             workers = [w \in Workers |->
                          IF w = "w1" THEN Call(cs, m)
                          ELSE [Call(<<>>, m) EXCEPT !.pc = "returned"]]
  /\ obs = [op |-> "registry", saved |-> <<>>]
  /\ strat = NoStrategy
  /\ phase = "absent"

\* the body of the while loop of discover_strategies
DiscoverIterate ==
  /\ tester.pc = "discover_strategies"
  /\ Len(tester.results) < tester.target_count
  /\ tester.attempts < tester.max_total_attempts
  /\ \E random \in RandomParameters :
       /\ tester' = [discover_iteration(tester, db, random).call EXCEPT !.iterations = @ + 1]
       /\ db' = discover_iteration(tester, db, random).db
  /\ UNCHANGED <<strat, phase, obs, workers>>

\* the loop condition fails and discover_strategies returns its results
DiscoverReturn ==
  /\ tester.pc = "discover_strategies"
  /\ ~(Len(tester.results) < tester.target_count /\ tester.attempts < tester.max_total_attempts)
  /\ tester' = [tester EXCEPT !.pc = "returned"]
  /\ UNCHANGED <<strat, phase, obs, db, workers>>

\* the body of the do-while loop of generate_unique_config and its
\* condition: a draw, the give-up test, the duplicate test
UniqueConfigDraw ==
  /\ tester.pc = "generate_unique_config"
  /\ \E random \in RandomParameters :
       tester' = [tester EXCEPT
                    !.parameters = random,
                    !.attempts = @ + 1,
                    !.draws = @ + 1,
                    !.pc = IF tester.attempts + 1 >= MaxDraws THEN "returned"
                           ELSE IF is_strategy_tested(db, SignatureOf(random))
                           THEN "generate_unique_config"
                           ELSE "returned"]
  /\ UNCHANGED <<strat, phase, obs, db, workers>>

LoopNext ==
  \/ DiscoverIterate
  \/ DiscoverReturn
  \/ UniqueConfigDraw
  \/ RegNext

LoopSpec == LoopInit /\ [][LoopNext]_vars

\* every loop body that can run is run in the end
FairLoopSpec == LoopSpec /\ WF_vars(LoopNext)

\* the ceilings hold in every state
WithinCeilings ==
  /\ tester.pc = "discover_strategies" \/ (tester.pc = "returned" /\ "iterations" \in DOMAIN tester)
       => /\ tester.iterations <= tester.max_total_attempts
          /\ Len(tester.results) <= tester.target_count
  /\ tester.pc = "generate_unique_config" \/ (tester.pc = "returned" /\ "draws" \in DOMAIN tester)
       => tester.draws <= MaxDraws
  /\ workers["w1"].next - 1 <= workers["w1"].max_attempts
  /\ Len(workers["w1"].results) <= workers["w1"].next

\* every call has returned
AllReturned ==
  /\ tester.pc \in {"idle", "returned"}
  /\ workers["w1"].pc = "returned"

\* C30: the exploration loops terminate through their attempt ceilings:
\* discover_strategies makes at most max_total_attempts iterations and returns
\* at most target_count results even when every generated vector is in the
\* registry, test_strategies_with_deduplication examines at most max_attempts
\* configs, generate_unique_config makes at most 100 draws, and each of them
\* returns.
C30_LoopsTerminate == []WithinCeilings /\ <>AllReturned

\* discover_strategies returned from a registry holding every vector after
\* max_total_attempts iterations without a result
C30_Witness ==
  /\ tester.pc = "returned"
  /\ "iterations" \in DOMAIN tester
  /\ db = ExhaustedDb
  /\ tester.target_count = MaxTarget
  /\ tester.iterations = MaxTotalAttempts
  /\ tester.results = <<>>

\* generate_unique_config gave up after its last draw
C30_GaveUp ==
  /\ tester.pc = "returned"
  /\ "draws" \in DOMAIN tester
  /\ tester.draws = MaxDraws
  /\ is_strategy_tested(db, SignatureOf(tester.parameters))

-----------------------------------------------------------------------------
(* ExplorationManager: parameter vectors drawn from ranges, or mutated      *)
(* around a stored strategy.  Parameters and range ends are in units of     *)
(* 1e-9, a value of rand() / RAND_MAX in 1/1000, scores in 1/1000.          *)

\* the largest number of saves before the generators are called
MaxRows == 2

\* the LIMIT of get_top_strategies(10)
TopLimit == 10

\* INSERT OR REPLACE of save_strategy_result with the two columns the ordered
\* queries read: composite_score as bound, tested_at the second of the insert
InsertScored(d, metrics, json, now) ==
  Bind(InsertOrReplace(d, metrics, json), LAMBDA d1 :
    [d1 EXCEPT !.strategies =
       { IF r.id = d.next_id
         THEN r @@ [composite_score |-> metrics.composite_score, tested_at |-> now]
         ELSE r : r \in @ }])

\* StrategyRegistry::load_strategy_from_db: the name, the numbers of the
\* parameters_json text, the score
load_strategy_from_db(r) ==
  [ strategy_name |-> r.strategy_name,
    parameters |-> r.parameters_json.text,
    composite_score |-> r.composite_score ]

\* StrategyRegistry::get_top_strategies, as the set of strategies that a
\* listing by descending score cut at the limit can hold (rows of equal score
\* come in any order)
get_top_strategies(d, limit) ==
  IF ~d.open THEN {}
  ELSE { load_strategy_from_db(r) :
           r \in { q \in d.strategies :
                     Cardinality({ h \in d.strategies :
                                     h.composite_score > q.composite_score }) < limit } }

\* a pair of the ranges vector
Range(first, second) == [first |-> first, second |-> second]

\* what a read past the end of the ranges vector can give: a fault, or the
\* doubles that lie there
Unmapped == [unmapped |-> TRUE]

PastTheEnd == { Unmapped, Range(0, Nanos) }

\* the ranges as operator[] gives them for the indices 1..n: the vector's own
\* pairs, and past its end anything
RangesRead(ranges, n) ==
  { [i \in 1..n |-> IF i <= Len(ranges) THEN ranges[i] ELSE past[i]] :
      past \in [1..n -> PastTheEnd] }

\* std::max(first, std::min(second, value))
Clamp(range, value) == Max2(range.first, Min2(range.second, value))

\* the random value of generate_exploration_parameters for one range
RandomValue(range, unit) ==
  range.first + ((range.second - range.first) \div 1000) * unit

\* ExplorationManager::generate_exploration_parameters; both branches draw
\* one value per range
generate_exploration_parameters(d, ranges, units) ==
  IF get_underexplored_regions(d) # {}
  THEN [i \in 1..Len(ranges) |-> RandomValue(ranges[i], units[i])]
  ELSE [i \in 1..Len(ranges) |-> RandomValue(ranges[i], units[i])]

\* -0.1 + 0.2 * rand() / RAND_MAX, in 1/1000
Mutation(unit) == (200 * unit) \div 1000 - 100

\* base_params[i] + (ranges[i].second - ranges[i].first) * mutation
Mutated(base, range, unit) ==
  base + ((range.second - range.first) \div 1000) * Mutation(unit)

\* ExplorationManager::mutate_around_successful: ranges is what ranges[i]
\* gives for every index of base_params; the call ends at the first read that
\* faults.  read is the set of indices at which ranges was read.
mutate_around_successful(base_params, ranges, draws) ==
  LET mutate == { i \in 1..Len(base_params) : draws[i].rand_val < 300 }
      faults == { i \in mutate : "unmapped" \in DOMAIN ranges[i] }
  IN  IF faults # {}
      THEN [ returned |-> FALSE,
             read |-> { i \in mutate : \A f \in faults : i <= f },
             unclamped |-> <<>>,
             parameters |-> <<>> ]
      ELSE [ returned |-> TRUE,
             read |-> mutate,
             unclamped |-> [i \in 1..Len(base_params) |->
                              IF i \in mutate
                              THEN Mutated(base_params[i], ranges[i], draws[i].unit)
                              ELSE base_params[i]],
             parameters |-> [i \in 1..Len(base_params) |->
                               IF i \in mutate
                               THEN Clamp(ranges[i], Mutated(base_params[i], ranges[i], draws[i].unit))
                               ELSE base_params[i]] ]

\* the strategies saved before the generators run, with their scores:
\* SMA(1, 2, 0), and an RSI vector of four parameters
ExploreConfigs ==
  { [strategy_name |-> "SMA", parameters |-> <<Nanos, 2 * Nanos, 0>>,
     composite_score |-> 200],
    [strategy_name |-> "RSI", parameters |-> <<Nanos, 2 * Nanos, Nanos, 0>>,
     composite_score |-> 700] }

\* the ranges vectors of a call: three ranges that hold SMA(1, 2, 0), two
\* ranges that do not
ExploreRanges ==
  { <<Range(Nanos, 2 * Nanos), Range(Nanos, 2 * Nanos), Range(0, 0)>>,
    <<Range(Nanos + Nanos \div 2, 2 * Nanos), Range(Nanos, Nanos + Nanos \div 2)>> }

\* rand() / RAND_MAX of the draws of generate_exploration_parameters
RandomUnits == {0, 295, 1000}

\* the two draws of mutate_around_successful for one parameter: no mutation,
\* the largest one, a small negative one
MutationDraws ==
  { [rand_val |-> 300, unit |-> 0],
    [rand_val |-> 299, unit |-> 1000],
    [rand_val |-> 0, unit |-> 295] }

NoCall ==
  [ op |-> "none", ranges |-> <<>>, base |-> <<>>, saves |-> 0,
    result |-> [returned |-> TRUE, read |-> {}, unclamped |-> <<>>, parameters |-> <<>>] ]

ExploreInit ==
  /\ db \in {InitializedDb, ClosedDb}
  /\ obs = NoCall
  /\ strat = NoStrategy
  /\ phase = "absent"
  /\ tester = NoTester
  /\ workers = NoWorkers

\* save_strategy_result of a tested strategy
ExploreSave ==
  /\ obs.saves < MaxRows
  /\ \E config \in ExploreConfigs :
       LET metrics == [StrategyMetrics(config) EXCEPT
                         !.composite_score = config.composite_score]
       IN  \E json \in BoundJson(metrics.parameters) :
             db' = IF ~db.open THEN db
                   ELSE update_exploration_region(
                          InsertScored(db, metrics, json, 0),
                          generate_parameter_region_id(metrics.parameters),
                          metrics.composite_score)
  /\ obs' = [NoCall EXCEPT !.op = "save_strategy_result", !.saves = obs.saves + 1]
  /\ UNCHANGED <<strat, phase, tester, workers>>

\* what the draws of a call make of the ranges
Explored(ranges, units) ==
  Bind(generate_exploration_parameters(db, ranges, units), LAMBDA params :
    [returned |-> TRUE, read |-> 1..Len(ranges), unclamped |-> params, parameters |-> params])

GenerateExplorationParameters ==
  /\ \E ranges \in ExploreRanges :
       \E units \in [1..Len(ranges) -> RandomUnits] :
         obs' = [obs EXCEPT !.op = "generate_exploration_parameters",
                            !.ranges = ranges, !.base = <<>>,
                            !.result = Explored(ranges, units)]
  /\ UNCHANGED <<db, strat, phase, tester, workers>>

\* ExplorationManager::generate_success_based_parameters: without a top
\* strategy the random vector, else a stored vector mutated
GenerateSuccessBasedParameters ==
  /\ \E ranges \in ExploreRanges :
       IF get_top_strategies(db, TopLimit) = {}
       THEN \E units \in [1..Len(ranges) -> RandomUnits] :
              obs' = [obs EXCEPT !.op = "generate_exploration_parameters",
                                 !.ranges = ranges, !.base = <<>>,
                                 !.result = Explored(ranges, units)]
       ELSE \E base_strategy \in get_top_strategies(db, TopLimit) :
              \E draws \in [1..Len(base_strategy.parameters) -> MutationDraws],
                 memory \in RangesRead(ranges, Len(base_strategy.parameters)) :
                obs' = [obs EXCEPT !.op = "generate_success_based_parameters",
                                   !.ranges = ranges,
                                   !.base = base_strategy.parameters,
                                   !.result = mutate_around_successful(
                                                base_strategy.parameters, memory, draws)]
  /\ UNCHANGED <<db, strat, phase, tester, workers>>

ExploreNext ==
  \/ ExploreSave
  \/ GenerateExplorationParameters
  \/ GenerateSuccessBasedParameters

ExploreSpec == ExploreInit /\ [][ExploreNext]_vars

\* a generator has returned or faulted
Generated ==
  obs.op \in {"generate_exploration_parameters", "generate_success_based_parameters"}

WithinRange(range, value) == range.first <= value /\ value <= range.second

\* every row holds the parameters text that was written for it
IntactRows == \A r \in db.strategies : r.parameters_json.intact

\* C31: every vector returned by generate_exploration_parameters(ranges) and
\* by generate_success_based_parameters(ranges) has one parameter per supplied
\* range and each parameter lies within its range, whatever the registry
\* contains; in a success-based vector each parameter equals the chosen top
\* strategy's value or differs from it by at most 10% of the range width
\* before clamping.  (Read here for registries whose rows hold their text.)
C31_ParametersWithinRanges ==
  Generated /\ IntactRows =>
    /\ obs.result.returned
    /\ Len(obs.result.parameters) = Len(obs.ranges)
    /\ \A i \in 1..Len(obs.result.parameters) :
         /\ i <= Len(obs.ranges)
         /\ WithinRange(obs.ranges[i], obs.result.parameters[i])
         /\ obs.op = "generate_success_based_parameters" =>
              \/ obs.result.parameters[i] = obs.base[i]
              \/ /\ 10 * Abs(obs.result.unclamped[i] - obs.base[i])
                      <= obs.ranges[i].second - obs.ranges[i].first
                 /\ obs.result.parameters[i] = Clamp(obs.ranges[i], obs.result.unclamped[i])

\* the random generator alone keeps the first half of C31
C31_ExplorationWithinRanges ==
  obs.op = "generate_exploration_parameters" =>
    /\ obs.result.returned
    /\ Len(obs.result.parameters) = Len(obs.ranges)
    /\ \A i \in 1..Len(obs.ranges) : WithinRange(obs.ranges[i], obs.result.parameters[i])

\* C34: generate_success_based_parameters never reads a range at an index
\* >= ranges.size(): for every registry content and every supplied ranges
\* vector, mutate_around_successful only accesses ranges[i] for
\* i < ranges.size().  (Read here for registries whose rows hold their text.)
C34_ReadsWithinRanges ==
  obs.op = "generate_success_based_parameters" /\ IntactRows =>
    \A i \in obs.result.read : i <= Len(obs.ranges)

-----------------------------------------------------------------------------
(* Pruning the registry: cleanup_old_strategies, vacuum_database and         *)
(* StrategyManagement::optimize_strategy_database.  tested_at is the second  *)
(* of the insert (CURRENT_TIMESTAMP).                                        *)

\* the largest number of saves before a cleanup
MaxCleanSaves == 3

\* the keep_count optimize_strategy_database passes
OptimizeKeepCount == 10000

\* keep_count of a direct call
KeepCounts == {-1, 0, 1, 2, OptimizeKeepCount}

\* a registry file that holds a parameter_regions row for the region of
\* SMA(1, 2, 0)
RegionFile ==
  [InitializedDb EXCEPT !.parameter_regions =
     { [region_id |-> "1|2|0|", exploration_count |-> 1, best_score |-> 200] }]

\* ORDER BY composite_score DESC, tested_at DESC puts r before q
ListedBefore(r, q) ==
  \/ r.composite_score > q.composite_score
  \/ r.composite_score = q.composite_score /\ r.tested_at > q.tested_at

\* the listings SELECT id FROM strategies ORDER BY composite_score DESC,
\* tested_at DESC can produce; rows equal in both columns come in any order
OrderedListings(rows) ==
  { s \in [1..Cardinality(rows) -> rows] :
      /\ \A i, j \in 1..Cardinality(rows) : i # j => s[i] # s[j]
      /\ \A i, j \in 1..Cardinality(rows) : i < j => ~ListedBefore(s[j], s[i]) }

\* LIMIT ?: the first keep_count rows of a listing, all of them for a
\* negative bound
Limited(listing, keep_count) ==
  { listing[i].id : i \in { j \in 1..Len(listing) : keep_count < 0 \/ j <= keep_count } }

\* cleanup_old_strategies that orders by score alone
cleanup_old_strategies_by_score(d, keep_count) ==
  IF ~d.open THEN { [db |-> d, success |-> FALSE] }
  ELSE { [db |-> [d EXCEPT !.strategies = { r \in @ : r.id \in ids }], success |-> TRUE] :
           ids \in { Limited(s, keep_count) :
                       s \in { q \in [1..Cardinality(d.strategies) -> d.strategies] :
                                 /\ \A i, j \in DOMAIN q : i # j => q[i] # q[j]
                                 /\ \A i, j \in DOMAIN q :
                                      i < j => q[i].composite_score >= q[j].composite_score } } }

\* StrategyRegistry::cleanup_old_strategies: the outcomes of the DELETE, one
\* per listing of the inner SELECT
cleanup_old_strategies(d, keep_count) ==
  IF ~d.open THEN { [db |-> d, success |-> FALSE] }
  ELSE { [db |-> [d EXCEPT !.strategies = { r \in @ : r.id \in ids }], success |-> TRUE] :
           ids \in { Limited(s, keep_count) : s \in OrderedListings(d.strategies) } }

\* StrategyRegistry::vacuum_database: VACUUM leaves every row as it is
vacuum_database(d) ==
  IF ~d.open THEN [db |-> d, success |-> FALSE]
  ELSE [db |-> d, success |-> TRUE]

\* the registry object StrategyRegistry(db_path) constructs over a file:
\* db_ is nullptr until initialize is called
StrategyRegistry(file) == [file EXCEPT !.open = FALSE]

\* StrategyManagement::optimize_strategy_database on a registry file: the
\* file after the call and the value returned.  The registry object is
\* constructed and never initialized.
optimize_strategy_database(file) ==
  { IF ~cleaned.success THEN [file |-> file, success |-> FALSE]
    ELSE IF ~vacuum_database(cleaned.db).success
         THEN [file |-> [file EXCEPT !.strategies = cleaned.db.strategies], success |-> FALSE]
         ELSE [file |-> [file EXCEPT !.strategies = cleaned.db.strategies], success |-> TRUE] :
      cleaned \in cleanup_old_strategies(StrategyRegistry(file), OptimizeKeepCount) }

NoCleanup ==
  [ op |-> "none", now |-> 0, saves |-> 0, keep_count |-> 0, success |-> TRUE,
    before |-> InitializedDb ]

CleanInit ==
  /\ db \in {InitializedDb, ClosedDb, RegionFile}
  /\ obs = NoCleanup
  /\ strat = NoStrategy
  /\ phase = "absent"
  /\ tester = NoTester
  /\ workers = NoWorkers

\* the strategies saved: three signatures, two of them of one region
CleanConfigs ==
  { config \in SaveConfigs : config.parameters[1] # Nanos + 1 }

\* save_strategy_result of a tested strategy, in the second of the save
\* before it or in the next one
CleanSave ==
  /\ obs.saves < MaxCleanSaves
  /\ \E config \in CleanConfigs, score \in SaveScores, now \in {obs.now, obs.now + 1} :
       LET metrics == [StrategyMetrics(config) EXCEPT !.composite_score = score]
       IN  /\ db' = IF ~db.open THEN db
                    ELSE update_exploration_region(
                           InsertScored(db, metrics, [intact |-> TRUE,
                                          text |-> ParametersJson(metrics.parameters)], now),
                           generate_parameter_region_id(metrics.parameters), score)
           /\ obs' = [obs EXCEPT !.op = "save_strategy_result", !.saves = @ + 1,
                                 !.now = now, !.success = db.open, !.before = db]
  /\ UNCHANGED <<strat, phase, tester, workers>>

CleanupOldStrategies ==
  /\ \E keep_count \in KeepCounts :
       \E call \in cleanup_old_strategies(db, keep_count) :
         /\ db' = call.db
         /\ obs' = [obs EXCEPT !.op = "cleanup_old_strategies", !.keep_count = keep_count,
                               !.success = call.success, !.before = db]
  /\ UNCHANGED <<strat, phase, tester, workers>>

\* optimize_strategy_database(db_path) while no registry object holds the
\* file: db.open tells whether the file can be opened
OptimizeStrategyDatabase ==
  /\ \E call \in optimize_strategy_database(db) :
       /\ db' = call.file
       /\ obs' = [obs EXCEPT !.op = "optimize_strategy_database",
                             !.keep_count = OptimizeKeepCount,
                             !.success = call.success, !.before = db]
  /\ UNCHANGED <<strat, phase, tester, workers>>

CleanNext ==
  \/ CleanSave
  \/ CleanupOldStrategies
  \/ OptimizeStrategyDatabase

CleanSpec == CleanInit /\ [][CleanNext]_vars

\* the rows a cleanup deleted
Deleted == obs.before.strategies \ db.strategies

\* C32: cleanup_old_strategies(k) on an initialised registry holding n rows,
\* with k >= 0, leaves exactly min(n, k) strategies rows; every retained row
\* has a composite score >= that of every deleted row, ties being broken in
\* favour of the row tested more recently (by tested_at); parameter_regions
\* rows are left unchanged.
C32_CleanupKeepsTop ==
  obs.op = "cleanup_old_strategies" /\ obs.before.open /\ obs.keep_count >= 0 =>
    /\ obs.success
    /\ db.strategies \subseteq obs.before.strategies
    /\ Cardinality(db.strategies)
         = Min2(Cardinality(obs.before.strategies), obs.keep_count)
    /\ \A r \in db.strategies, q \in Deleted :
         /\ r.composite_score >= q.composite_score
         /\ r.composite_score = q.composite_score => r.tested_at >= q.tested_at
    /\ db.parameter_regions = obs.before.parameter_regions

\* a cleanup kept one of three rows: it deleted a row of the same score tested
\* a second earlier and a row of a lower score tested later, and left a
\* parameter_regions row in place
C32_Witness ==
  /\ obs.op = "cleanup_old_strategies"
  /\ obs.keep_count = 1
  /\ Cardinality(obs.before.strategies) = 3
  /\ Cardinality(db.strategies) = 1
  /\ db.parameter_regions # {}
  /\ \E r \in db.strategies :
       /\ \E q \in Deleted : q.composite_score = r.composite_score /\ q.tested_at < r.tested_at
       /\ \E q \in Deleted : q.composite_score < r.composite_score /\ q.tested_at > r.tested_at

\* C36: optimize_strategy_database(db_path) on an existing, openable registry
\* database prunes it to at most 10000 strategies rows, vacuums it and returns
\* true.
C36_OptimizeSucceeds ==
  obs.op = "optimize_strategy_database" /\ obs.before.open =>
    /\ obs.success
    /\ Cardinality(db.strategies) <= OptimizeKeepCount

-----------------------------------------------------------------------------
(* Scenario B: SMA crossover strategies with fee 0 driven through a close    *)
(* series that rises from 100 to 150, in whole dollars.                      *)

\* the bars of the rising series
ScenarioBars == 60

\* close of bar i: 100 at the first bar, 150 at the last, never falling
RisingClose(i) == 100 + (50 * (i - 1)) \div (ScenarioBars - 1)

\* short and long windows, all shorter than the series
ScenarioWindows == { <<10, 40>>, <<3, 5>>, <<5, 20>>, <<20, 55>> }

ScenarioConfigs ==
  { [kind |-> "SMA", sw_ |-> w[1], lw_ |-> w[2], fee_ |-> 0] : w \in ScenarioWindows }

ScenarioInit ==
  /\ strat \in { Constructed(cfg) : cfg \in ScenarioConfigs }
  /\ phase = "new"
  /\ obs = NoObs
  /\ tester = [pc |-> "feed", feed |-> "rising"]
  /\ db = NoDb
  /\ workers = NoWorkers

\* the next bar of the series, as run_strategy_simulation feeds it
ScenarioBar ==
  /\ phase = "running"
  /\ Len(strat.closes_) < ScenarioBars
  /\ LET b == [date |-> Len(strat.closes_) + 1, close |-> RisingClose(Len(strat.closes_) + 1)]
     IN  /\ strat' = on_bar(strat, b)
         /\ obs' = [op |-> "on_bar", bar |-> b, pre |-> strat]
  /\ UNCHANGED <<phase, tester, db, workers>>

\* on_finish after the last bar
ScenarioFinish ==
  /\ Len(strat.closes_) = ScenarioBars
  /\ OnFinish

ScenarioNext == OnStart \/ ScenarioBar \/ ScenarioFinish

ScenarioSpec == ScenarioInit /\ [][ScenarioNext]_vars

\* the trade log is one Entry, a Buy, followed by one Exit with a positive
\* pnl, and the run ends above the initial capital
OneWinningRoundTrip ==
  /\ Len(strat.trades_) = 2
  /\ strat.trades_[1].type = "ENTRY"
  /\ strat.trades_[1].side = "BUY"
  /\ strat.trades_[2].type = "EXIT"
  /\ strat.trades_[2].pnl > 0
  /\ strat.portfolio_value_ > InitialCapital * Mills

\* the bars after the entry whose close reaches the take-profit level of the
\* entry price
TakeProfitBars(entry) ==
  { d \in (entry.date + 1)..ScenarioBars :
      RisingClose(d) * PctDen >= entry.price * (PctDen + RiskConfig("SMA").take_profit_pct) }

C33_ForceClosed ==
  /\ phase = "finished"
  /\ strat.cfg.lw_ = 55
  /\ Len(obs.pre.trades_) = 1
  /\ Len(strat.trades_) = 2

-----------------------------------------------------------------------------
(* Configuration generators: StrategyGeneration::generate_sma_configs and    *)
(* the SMA branch of StrategyTester::generate_strategy_configs.  Windows are *)
(* whole numbers, range ends of generate_strategy_configs are in tenths, a   *)
(* value of rand() / RAND_MAX in 1/1000, fees in units of 1e-7.              *)

\* the largest num_configs or num_samples of a call
MaxGenerated == 2

\* the largest window bound of a call
MaxWindow == 4

\* int ranges of generate_sma_configs, min <= max
WindowRanges == { r \in (1..MaxWindow) \X (1..MaxWindow) : r[1] <= r[2] }

\* the three rand() values of one configuration of generate_sma_configs, as
\* the remainders the code takes: short offset, long offset, rand() % 100
SmaDraws(short, long) ==
  { [short |-> a, long |-> b, fee |-> f] :
      a \in 0..(short[2] - short[1]), b \in 0..(long[2] - long[1]), f \in {0, 99} }

\* std::swap(short_win, long_win) when short_win >= long_win
SwapWhenNotBelow(short_win, long_win) ==
  IF short_win >= long_win THEN <<long_win, short_win>> ELSE <<short_win, long_win>>

\* one configuration of StrategyGeneration::generate_sma_configs
generate_sma_config(short, long, draw) ==
  Bind(SwapWhenNotBelow(short[1] + draw.short, long[1] + draw.long), LAMBDA windows :
    [ strategy_name |-> "SMA",
      parameters |-> <<windows[1], windows[2], 1000 + 100 * draw.fee>> ])

\* StrategyGeneration::generate_sma_configs
generate_sma_configs(num_configs, short, long, draws) ==
  [i \in 1..num_configs |-> generate_sma_config(short, long, draws[i])]

\* std::toupper over the strategy type
ToUpper(type) ==
  CASE type = "sma" -> "SMA"
    [] type = "Sma" -> "SMA"
    [] OTHER -> type

\* static_cast<int>(random_between(min, max)) for a range in tenths: the
\* value truncated toward zero
RandomWindow(range, unit) ==
  Bind(range[1] * 1000 + (range[2] - range[1]) * unit, LAMBDA v :
    IF v >= 0 THEN v \div 10000 ELSE -((-v) \div 10000))

\* the ranges generate_strategy_configs uses for SMA: the supplied ones, then
\* the defaults {5, 50}, {20, 200}, {0.0001, 0.0010}
SmaRange(ranges, i) ==
  IF Len(ranges) >= i THEN ranges[i]
  ELSE CASE i = 1 -> <<50, 500>>
         [] i = 2 -> <<200, 2000>>
         [] i = 3 -> <<1000, 10000>>

\* one configuration of the SMA branch of generate_strategy_configs; the fee
\* range is in units of 1e-7
generate_strategy_config(ranges, draw) ==
  Bind(RandomWindow(SmaRange(ranges, 1), draw.short), LAMBDA short_win :
  Bind(RandomWindow(SmaRange(ranges, 2), draw.long), LAMBDA long_win :
    [ strategy_name |-> "SMA",
      parameters |-> << short_win,
                        IF short_win >= long_win THEN short_win + 5 ELSE long_win,
                        SmaRange(ranges, 3)[1]
                          + ((SmaRange(ranges, 3)[2] - SmaRange(ranges, 3)[1]) * draw.fee)
                              \div 1000 >> ]))

\* StrategyTester::generate_strategy_configs: SMA configurations for the type
\* "SMA" in any case; the other branches are not modelled
generate_strategy_configs(gen_config, draws) ==
  IF ToUpper(gen_config.strategy_type) = "SMA"
  THEN [i \in 1..gen_config.num_samples |->
          generate_strategy_config(gen_config.parameter_ranges, draws[i])]
  ELSE <<>>

\* rand() / RAND_MAX of generate_strategy_configs
GenUnits == {0, 500, 1000}

GenDraws == [short : GenUnits, long : GenUnits, fee : {0, 1000}]

\* parameter_ranges of a call: none (the defaults), overlapping window
\* ranges, a short range above the long one
GenRanges ==
  { <<>>,
    << <<10, 30>>, <<20, 40>> >>,
    << <<30, 40>>, <<10, 20>>, <<0, 0>> >> }

GenInit ==
  /\ obs = [op |-> "none", configs |-> <<>>]
  /\ strat = NoStrategy
  /\ phase = "absent"
  /\ tester = NoTester
  /\ db = NoDb
  /\ workers = NoWorkers

\* a call of generate_sma_configs on the arguments and draws chosen
GenerateSmaConfigs ==
  /\ obs.op = "none"
  /\ \E num_configs \in 0..MaxGenerated, short \in WindowRanges, long \in WindowRanges :
       \E draws \in [1..num_configs -> SmaDraws(short, long)] :
         obs' = [op |-> "generate_sma_configs",
                 configs |-> generate_sma_configs(num_configs, short, long, draws)]
  /\ UNCHANGED <<strat, phase, tester, db, workers>>

\* a call of generate_strategy_configs on the configuration and draws chosen
GenerateStrategyConfigs ==
  /\ obs.op = "none"
  /\ \E type \in {"SMA", "sma"}, ranges \in GenRanges, num_samples \in 0..MaxGenerated :
       \E draws \in [1..num_samples -> GenDraws] :
         obs' = [op |-> "generate_strategy_configs",
                 configs |-> generate_strategy_configs(
                               [strategy_type |-> type, parameter_ranges |-> ranges,
                                num_samples |-> num_samples], draws)]
  /\ UNCHANGED <<strat, phase, tester, db, workers>>

GenNext == GenerateSmaConfigs \/ GenerateStrategyConfigs

GenSpec == GenInit /\ [][GenNext]_vars

\* C35: every SMA configuration produced by generate_sma_configs and by
\* generate_strategy_configs has short_window strictly less than long_window,
\* for all argument ranges, including short and long ranges that overlap.
C35_ShortBelowLong ==
  \A i \in 1..Len(obs.configs) :
    obs.configs[i].parameters[1] < obs.configs[i].parameters[2]

\* generate_strategy_configs alone keeps the order
C35_StrategyConfigsShortBelowLong ==
  obs.op = "generate_strategy_configs" =>
    \A i \in 1..Len(obs.configs) :
      obs.configs[i].parameters[1] < obs.configs[i].parameters[2]

-----------------------------------------------------------------------------
(* Reuse of a strategy object: a first run that ends anywhere, then on_start *)
(* and a second run.  Beside the reused object a new object of the same      *)
(* configuration is driven through the bars of the second run.               *)

\* bars fed to each of the two runs
MaxRerunBars == 4

\* closes of the two runs: an SMA(1, 2) buys at 110 after 100 and is stopped
\* at 100
RerunCloses == {100, 110}

RerunInit ==
  /\ strat \in { Constructed(cfg) : cfg \in SmaConfigs \cup MacdConfigs }
  /\ phase = "new"
  /\ obs = [op |-> "none", run |-> 1, first |-> strat, fresh |-> strat]
  /\ tester = NoTester
  /\ db = NoDb
  /\ workers = NoWorkers

\* on_start of the first run
RerunStart ==
  /\ phase = "new"
  /\ strat' = on_start(strat)
  /\ phase' = "running"
  /\ obs' = [obs EXCEPT !.op = "on_start"]
  /\ UNCHANGED <<tester, db, workers>>

\* a bar of either run; in the second run the new object gets it too
RerunBar ==
  /\ phase = "running"
  /\ Len(strat.closes_) < MaxRerunBars
  /\ \E c \in RerunCloses :
       LET b == [date |-> Len(strat.closes_) + 1, close |-> c]
       IN  /\ strat' = on_bar(strat, b)
           /\ obs' = [obs EXCEPT !.op = "on_bar",
                                 !.fresh = IF obs.run = 2 THEN on_bar(@, b) ELSE @]
  /\ UNCHANGED <<phase, tester, db, workers>>

\* on_finish of either run
RerunFinish ==
  /\ phase = "running"
  /\ strat' = on_finish(strat)
  /\ phase' = "finished"
  /\ obs' = [obs EXCEPT !.op = "on_finish",
                        !.fresh = IF obs.run = 2 THEN on_finish(@) ELSE @]
  /\ UNCHANGED <<tester, db, workers>>

\* on_start of the second run, on the object as the first run left it, with
\* or without on_finish; the new object is constructed and started
Restart ==
  /\ obs.run = 1
  /\ phase \in {"running", "finished"}
  /\ strat' = on_start(strat)
  /\ phase' = "running"
  /\ obs' = [op |-> "on_start", run |-> 2, first |-> strat,
             fresh |-> on_start(Constructed(strat.cfg))]
  /\ UNCHANGED <<tester, db, workers>>

RerunNext == RerunStart \/ RerunBar \/ RerunFinish \/ Restart

RerunSpec == RerunInit /\ [][RerunNext]_vars

\* C37: on_start resets all run state of the SMA and MACD strategies: a
\* second run of the same strategy object yields the trade log, the portfolio
\* value after each bar, the max drawdown and the final portfolio value that
\* a run of the same bars yields on a new object, whatever state the first
\* run ended in.
C37_SecondRunAsFirst ==
  obs.run = 2 =>
    /\ strat.trades_ = obs.fresh.trades_
    /\ strat.portfolio_value_ = obs.fresh.portfolio_value_
    /\ strat.max_drawdown_ = obs.fresh.max_drawdown_
    /\ strat.cash_ = obs.fresh.cash_

\* the first run was left with an open position and a drawdown on record;
\* the second run has traded and finished
C37_Witness ==
  /\ obs.run = 2
  /\ phase = "finished"
  /\ obs.first.quantity # 0
  /\ obs.first.position_ # 0
  /\ obs.first.trades_ # <<>>
  /\ Len(strat.trades_) >= 2
  /\ strat.trades_ # obs.first.trades_

\* a MACD object has finished a second run after a first run of four bars
C37_MacdWitness ==
  /\ obs.run = 2
  /\ phase = "finished"
  /\ strat.cfg.kind = "MACD"
  /\ Len(obs.first.closes_) = MaxRerunBars
  /\ obs.first.histogram_ # <<>>
  /\ Len(strat.closes_) = MaxRerunBars

-----------------------------------------------------------------------------
(* The duplicate key and the strategy name.                                  *)

\* the rows stored under the signature of a configuration's parameters
RowsFor(config) ==
  { r \in db.strategies :
      r.parameters_hash = generate_strategy_signature(config.parameters) }

\* C38: the duplicate key is made of the parameters alone. Once a row is
\* stored for a parameter vector, under whatever strategy name, every
\* configuration with that vector is reported as tested, the loop skips a
\* configuration it finds stored that way, and a save of such a configuration
\* leaves one row for the vector, never two.
C38_NameIgnored ==
  (obs.op = "registry" /\ db.open) =>
    /\ \A r \in db.strategies, config \in RegConfigs :
         (r.strategy_name # config.strategy_name
            /\ r.parameters_hash = generate_strategy_signature(config.parameters))
           => is_strategy_tested(db, r.parameters_hash)
    /\ \A w \in Workers :
         workers[w].stored => workers[w].pc \in {"examine", "returned"}
    /\ \A r \in db.strategies, q \in db.strategies :
         r.parameters_hash = q.parameters_hash => r = q

\* one worker saved an SMA row, the other replaced it by a MACD row with the
\* same signature, and the first worker then skipped its MACD configuration
C38_Witness ==
  /\ obs.op = "registry"
  /\ db.open
  /\ Len(obs.saved) = 2
  /\ obs.saved[1].metrics.strategy_name = "SMA"
  /\ obs.saved[2].metrics.strategy_name = "MACD"
  /\ obs.saved[1].metrics.parameters_hash = obs.saved[2].metrics.parameters_hash
  /\ \E w \in Workers :
       /\ workers[w].pc = "returned"
       /\ Len(workers[w].configs) = 2
       /\ workers[w].next = 3
       /\ workers[w].stored
       /\ workers[w].configs[1].strategy_name = "SMA"
       /\ workers[w].configs[2].strategy_name = "MACD"
       /\ Len(workers[w].results) = 1
       /\ { r.strategy_name : r \in RowsFor(workers[w].configs[2]) } = {"MACD"}

-----------------------------------------------------------------------------
(* SmartStrategyTester called again and again by one client, each call with  *)
(* its own bars: test_strategies_with_deduplication and discover_strategies  *)
(* save whatever test_strategy returned.                                     *)

\* the calls a client makes
MaxRetryCalls == 2

\* SMA(1, 2, 0), which the factory builds, and a name it does not know
RetryConfigs ==
  { [strategy_name |-> "SMA", parameters |-> <<Nanos, 2 * Nanos, 0>>,
     initial_capital |-> InitialCapital * Mills],
    [strategy_name |-> "Momentum", parameters |-> <<2 * Nanos, 2 * Nanos, 0>>,
     initial_capital |-> InitialCapital * Mills] }

\* valid bars, bars out of chronological order, no bars
RetryData == { RegData, <<RegData[2], RegData[1]>>, <<>> }

\* vectors generate_exploration_parameters can return to discover_strategies
RetryRandom == { <<50, 200, 1000000>>, <<500, 200, 1000000>> }

\* test_strategy of the SMA configuration discover_strategies builds from a
\* generated vector (windows in tenths, fee in units of 1e-9)
TestGenerated(parameters, data) ==
  LET config == [strategy_name |-> "SMA", parameters |-> parameters,
                 initial_capital |-> InitialCapital * Mills]
      metrics == StrategyMetrics(config)
      cfg == make_sma_strategy(parameters[1] \div 10, parameters[2] \div 10,
                               ToPermille(parameters[3]))
  IN  IF \/ validate_chronological_order(data) # NoException
         \/ validate_data_integrity(data) # NoException
         \/ validate_ohlc_relationships(data) # NoException
      THEN metrics
      ELSE Bind(run_strategy_simulation(Constructed(cfg), data), LAMBDA sim :
             calculate_metrics(metrics, config, sim.portfolio_values, sim.s, data))

\* save_strategy_result and update_exploration_stats for the metrics of a
\* generated vector: the row replaces the one with its signature;
\* parameter_regions has no row to update
SaveDiscovered(d, metrics) ==
  IF ~d.open THEN d
  ELSE Bind(SignatureOf(metrics.parameters), LAMBDA signature :
    update_exploration_region(
      update_exploration_region(
        [d EXCEPT !.strategies =
                    { r \in @ : r.parameters_hash # signature }
                      \cup { [ id |-> d.next_id,
                               strategy_name |-> metrics.strategy_name,
                               parameters_hash |-> signature,
                               total_return |-> metrics.total_return,
                               max_drawdown |-> metrics.max_drawdown,
                               win_rate |-> metrics.win_rate,
                               profit_factor |-> metrics.profit_factor,
                               total_trades |-> metrics.total_trades ] },
                  !.next_id = @ + 1],
        signature, metrics.composite_score),
      signature, metrics.composite_score))

\* the rows of a database that carry a signature, as the metrics they hold
RowsOf(d, signature) ==
  { StoredMetrics(r) : r \in { q \in d.strategies : q.parameters_hash = signature } }

\* what one pass through a loop body did: the data of the call, whether
\* test_strategy ran to its metrics, the signature, and the rows stored under
\* it afterwards
Pass(data, completed, signature, outcome, d) ==
  [ data |-> data, completed |-> completed, signature |-> signature,
    outcome |-> outcome, rows |-> RowsOf(d, signature) ]

\* test_strategy reaches the simulation: no validation throws and the
\* factory returns a strategy
Completes(config, data) ==
  /\ validate_chronological_order(data) = NoException
  /\ validate_data_integrity(data) = NoException
  /\ validate_ohlc_relationships(data) = NoException
  /\ create_strategy(config.strategy_name, config.parameters) # NullStrategy

\* test_strategy(config, data) of every configuration on every data set of
\* a call, and whether it reached the simulation
RetryResults ==
  [config \in RetryConfigs |-> [data \in RetryData |-> test_strategy(config, data)]]

RetryCompletes ==
  [config \in RetryConfigs |-> [data \in RetryData |-> Completes(config, data)]]

\* the same for the configurations discover_strategies builds
GeneratedResults ==
  [random \in RetryRandom |->
     [data \in RetryData |-> TestGenerated(EnsureShortBelowLong(random), data)]]

GeneratedCompletes ==
  [data \in RetryData |->
     Completes([strategy_name |-> "SMA", parameters |-> <<0, 0, 0>>], data)]

RetryInit ==
  /\ db \in {InitializedDb, ClosedDb}
  /\ tester = NoTester
  /\ obs = [op |-> "retry", calls |-> 0, log |-> <<>>]
  /\ strat = NoStrategy
  /\ phase = "absent"
  /\ workers = NoWorkers

\* the client calls test_strategies_with_deduplication with one configuration
CallDeduplication ==
  /\ obs.op = "retry"
  /\ tester.pc = "idle"
  /\ obs.calls < MaxRetryCalls
  /\ \E config \in RetryConfigs, data \in RetryData :
       tester' = [Call(<<config>>, 1) EXCEPT
                    !.pc = "test_strategies_with_deduplication"] @@ [data |-> data]
  /\ obs' = [obs EXCEPT !.calls = @ + 1]
  /\ UNCHANGED <<db, strat, phase, workers>>

\* the client calls discover_strategies
CallDiscover ==
  /\ obs.op = "retry"
  /\ tester.pc = "idle"
  /\ obs.calls < MaxRetryCalls
  /\ \E data \in RetryData, target_count \in {1, MaxTarget} :
       tester' = DiscoverCall(target_count, target_count) @@ [data |-> data]
  /\ obs' = [obs EXCEPT !.calls = @ + 1]
  /\ UNCHANGED <<db, strat, phase, workers>>

\* the body of the for loop of test_strategies_with_deduplication
DeduplicationPass ==
  /\ tester.pc = "test_strategies_with_deduplication"
  /\ tester.next <= Len(tester.configs)
  /\ tester.attempts < tester.max_attempts
  /\ LET config == tester.configs[tester.next]
         signature == generate_strategy_signature(config.parameters)
     IN  IF is_strategy_tested(db, signature)
         THEN /\ tester' = [tester EXCEPT !.attempts = @ + 1, !.next = @ + 1]
              /\ obs' = [obs EXCEPT !.log = Append(@,
                           Pass(tester.data, RetryCompletes[config][tester.data], signature,
                                "skipped", db))]
              /\ UNCHANGED db
         ELSE \E json \in BoundJson(config.parameters) :
                LET metrics == RetryResults[config][tester.data]
                    saved == save_strategy_result(db, metrics, json).db
                IN  /\ db' = saved
                    /\ tester' = [tester EXCEPT !.attempts = @ + 1, !.next = @ + 1,
                                                !.results = Append(@, metrics)]
                    /\ obs' = [obs EXCEPT !.log = Append(@,
                                 Pass(tester.data, RetryCompletes[config][tester.data],
                                      signature, "tested", saved))]
  /\ UNCHANGED <<strat, phase, workers>>

\* the body of the while loop of discover_strategies
DiscoverPass ==
  /\ tester.pc = "discover_strategies"
  /\ Len(tester.results) < tester.target_count
  /\ tester.attempts < tester.max_total_attempts
  /\ \E random \in RetryRandom :
       LET parameters == EnsureShortBelowLong(random)
           signature == SignatureOf(parameters)
           valid == GeneratedCompletes[tester.data]
       IN  IF is_strategy_tested(db, signature)
           THEN /\ tester' = [tester EXCEPT !.attempts = @ + 1]
                /\ obs' = [obs EXCEPT !.log = Append(@,
                             Pass(tester.data, valid, signature, "skipped", db))]
                /\ UNCHANGED db
           ELSE LET metrics == GeneratedResults[random][tester.data]
                    saved == SaveDiscovered(db, metrics)
                IN  /\ db' = saved
                    /\ tester' = [tester EXCEPT !.attempts = @ + 1,
                                                !.results = Append(@, metrics)]
                    /\ obs' = [obs EXCEPT !.log = Append(@,
                                 Pass(tester.data, valid, signature, "tested", saved))]
  /\ UNCHANGED <<strat, phase, workers>>

\* either loop ends and the call returns its results
RetryReturn ==
  /\ \/ /\ tester.pc = "test_strategies_with_deduplication"
        /\ \/ tester.next > Len(tester.configs)
           \/ tester.attempts >= tester.max_attempts
     \/ /\ tester.pc = "discover_strategies"
        /\ ~(Len(tester.results) < tester.target_count
               /\ tester.attempts < tester.max_total_attempts)
  /\ tester' = NoTester
  /\ UNCHANGED <<db, obs, strat, phase, workers>>

RetryNext ==
  \/ CallDeduplication
  \/ CallDiscover
  \/ DeduplicationPass
  \/ DiscoverPass
  \/ RetryReturn

RetrySpec == RetryInit /\ [][RetryNext]_vars

\* a row whose metrics are those of a default-constructed StrategyMetrics
AllZero(row) ==
  /\ row.total_return.num = 0
  /\ row.max_drawdown.num = 0
  /\ row.win_rate.num = 0
  /\ row.profit_factor.num = 0
  /\ row.total_trades = 0

\* C39: in both loops a configuration that is not skipped is saved, also when
\* its test aborted on the data or in the factory: the registry then holds one
\* row for its signature, with all-zero metrics, and every later pass over the
\* same signature skips it, whatever data that call brings.
C39_AbortedTestSaved ==
  (obs.op = "retry" /\ db.open) =>
    \A i \in 1..Len(obs.log) :
      /\ obs.log[i].outcome = "tested" => Cardinality(obs.log[i].rows) = 1
      /\ (obs.log[i].outcome = "tested" /\ ~obs.log[i].completed)
           => \A row \in obs.log[i].rows : AllZero(row)
      /\ is_strategy_tested(db, obs.log[i].signature)
      /\ \A j \in (i + 1)..Len(obs.log) :
           obs.log[j].signature = obs.log[i].signature
             => /\ obs.log[j].outcome = "skipped"
                /\ obs.log[j].rows = obs.log[i].rows

\* a test of SMA(1, 2, 0) aborted on bars out of order and was saved with
\* all-zero metrics; a later call with valid bars, on which the test would
\* have traded, skipped it
C39_Witness ==
  /\ obs.op = "retry"
  /\ db.open
  /\ Len(obs.log) = 2
  /\ obs.log[1].outcome = "tested"
  /\ ~obs.log[1].completed
  /\ obs.log[1].data # <<>>
  /\ obs.log[1].signature = generate_strategy_signature(<<Nanos, 2 * Nanos, 0>>)
  /\ obs.log[2].signature = obs.log[1].signature
  /\ obs.log[2].outcome = "skipped"
  /\ obs.log[2].completed
  /\ obs.log[2].data = RegData
  /\ RowsOf(db, obs.log[1].signature) # {}
  /\ \A row \in RowsOf(db, obs.log[1].signature) : AllZero(row)
  /\ \E config \in RetryConfigs :
       /\ generate_strategy_signature(config.parameters) = obs.log[1].signature
       /\ RetryResults[config][RegData].total_trades > 0

\* discover_strategies saved a generated vector whose test aborted on empty
\* data, and a later call of it with valid bars skipped the vector
C39_DiscoverWitness ==
  /\ obs.op = "retry"
  /\ db.open
  /\ tester.pc = "discover_strategies"
  /\ Len(obs.log) = 2
  /\ obs.log[1].outcome = "tested"
  /\ obs.log[1].data = <<>>
  /\ ~obs.log[1].completed
  /\ obs.log[1].signature = SignatureOf(EnsureShortBelowLong(<<50, 200, 1000000>>))
  /\ obs.log[2].signature = obs.log[1].signature
  /\ obs.log[2].outcome = "skipped"
  /\ obs.log[2].data = RegData

-----------------------------------------------------------------------------
(* StrategyTester::test_strategy for configurations whose initial_capital    *)
(* is not the default.                                                       *)

\* StrategyTestConfig.initial_capital in dollars: half the default, the
\* default, twice the default
CapitalValues == { InitialCapital \div 2, InitialCapital, 2 * InitialCapital }

\* SMA(1, 2, 0) with each initial capital
CapitalConfigs ==
  { [strategy_name |-> "SMA", parameters |-> <<Nanos, 2 * Nanos, 0>>,
     initial_capital |-> capital * Mills] : capital \in CapitalValues }

CapitalInit ==
  /\ tester \in { [pc |-> "validate_chronological_order", config |-> c, data |-> d,
                   metrics |-> StrategyMetrics(c), calls |-> <<>>, caught |-> NoException,
                   portfolio_values |-> <<>>] :
                  c \in CapitalConfigs, d \in SeqsUpTo(TestBars, MaxTestBars) }
  /\ strat = NoStrategy
  /\ phase = "absent"
  /\ obs = NoObs
  /\ db = NoDb
  /\ workers = NoWorkers

CapitalSpec == CapitalInit /\ [][TestNext]_vars

\* bars in chronological order with positive prices between low and high
ValidBars(data) ==
  /\ \A i \in 1..(Len(data) - 1) : data[i].date < data[i + 1].date
  /\ \A i \in 1..Len(data) :
       /\ data[i].low > 0
       /\ data[i].low <= data[i].open /\ data[i].open <= data[i].high
       /\ data[i].low <= data[i].close /\ data[i].close <= data[i].high

\* test_strategy returned from a run over two or more valid bars that traded
\* nothing
NoTradeRun ==
  /\ tester.pc = "returned"
  /\ tester.caught = NoException
  /\ phase = "finished"
  /\ Len(tester.data) >= 2
  /\ ValidBars(tester.data)
  /\ strat.trades_ = NoTrades

\* C40: whatever initial_capital the configuration carries, a run over two or
\* more valid bars that makes no trade reports total_return, max_drawdown and
\* sharpe_ratio of zero.
C40_NoTradeZeroReturn ==
  NoTradeRun =>
    /\ obs.result.total_return.num = 0
    /\ obs.result.max_drawdown.num = 0
    /\ obs.result.sharpe_ratio = FlZero

\* with the default initial_capital the no-trade run does report zeros
C40_DefaultCapitalZeroReturn ==
  (NoTradeRun /\ tester.config.initial_capital = InitialCapital * Mills) =>
    /\ obs.result.total_return.num = 0
    /\ obs.result.max_drawdown.num = 0
    /\ obs.result.sharpe_ratio = FlZero

\* the portfolio values of a no-trade run stay at the default capital, so
\* total_return is that capital against the configured one
C40_ReturnAgainstDefault ==
  NoTradeRun =>
    /\ \A i \in 1..Len(tester.portfolio_values) :
         tester.portfolio_values[i] = InitialCapital * Mills
    /\ obs.result.total_return =
         [num |-> InitialCapital * Mills - tester.config.initial_capital,
          den |-> tester.config.initial_capital]
    /\ obs.result.max_drawdown.num = 0
    /\ obs.result.sharpe_ratio = FlZero

\* a no-trade run of a configuration with half the default capital returned
C40_HalfCapitalRun ==
  /\ NoTradeRun
  /\ tester.config.initial_capital = (InitialCapital \div 2) * Mills

====
